---- MODULE Spec2Model ----
(***************************************************************************)
(* State-machine model of robot.libraries.Process: the registry of started *)
(* processes (a ConnectionCache), the results map, and the lifecycle       *)
(* keywords start / run / wait / terminate / terminate-all / get-result.   *)
(* The operating system side (a child exiting, a signal being delivered or *)
(* refused, a Robot timeout being raised in the controlling flow) is the   *)
(* environment and is nondeterministic.                                    *)
(***************************************************************************)
EXTENDS Integers, Sequences, FiniteSets, TLC

\* ------------------------------------------------------------- constants

\* Process.TERMINATE_TIMEOUT and Process.KILL_TIMEOUT, in time units.
TERMINATE_TIMEOUT == 30
KILL_TIMEOUT == 10

\* ConnectionCache's NoConnection placeholder: `current` when nothing is active.
NoConnection == 0

\* ---------------------------------------------------------------- bounds

\* Processes ever spawned in one run (process ids are 1..MaxSpawn, never reused).
MaxSpawn == 2
\* Largest positive timeout given to wait_for_process / run_process.
MaxTimeout == 1
\* Longest output a process writes to one stream, in characters.
MaxLen == 3
\* Time units that pass in one time.sleep() of a polling loop.
TimeStep == 10

\* ---------------------------------------------------------------- inputs

\* Strings whose letter case matters are sequences of characters.
S_none == <<"n", "o", "n", "e">>
S_NONE == <<"N", "O", "N", "E">>
S_NoNe == <<"N", "o", "N", "e">>
S_continue == <<"c", "o", "n", "t", "i", "n", "u", "e">>
S_terminate == <<"t", "e", "r", "m", "i", "n", "a", "t", "e">>
S_kill == <<"k", "i", "l", "l">>
S_KILL == <<"K", "I", "L", "L">>
S_abort == <<"a", "b", "o", "r", "t">>

LowerTable ==
    [c \in {"N", "O", "E", "K", "I", "L"} |->
        CASE c = "N" -> "n" [] c = "O" -> "o" [] c = "E" -> "e"
          [] c = "K" -> "k" [] c = "I" -> "i" [] c = "L" -> "l"]

UpperTable ==
    [c \in {"n", "o", "e", "p", "i"} |->
        CASE c = "n" -> "N" [] c = "o" -> "O" [] c = "e" -> "E"
          [] c = "p" -> "P" [] c = "i" -> "I"]

\* Mutant: the string is compared as it was given.
Lower_Unchanged(s) == s

\* str.lower(): every cased character to lower case, the others unchanged.
Lower(s) ==
    [i \in DOMAIN s |-> IF s[i] \in DOMAIN LowerTable THEN LowerTable[s[i]] ELSE s[i]]

\* str.upper()
Upper(s) ==
    [i \in DOMAIN s |-> IF s[i] \in DOMAIN UpperTable THEN UpperTable[s[i]] ELSE s[i]]

\* The `timeout` argument: Python None, a string, or a number of time units.
TimeoutNone == [tag |-> "None", s |-> <<>>, n |-> 0]
TimeoutStr(s) == [tag |-> "str", s |-> s, n |-> 0]
TimeoutNum(n) == [tag |-> "num", s |-> <<>>, n |-> n]

TimeoutInputs ==
    {TimeoutNone, TimeoutStr(S_NONE), TimeoutStr(S_none), TimeoutStr(S_NoNe)}
        \cup {TimeoutNum(n) : n \in -1 .. MaxTimeout}

OnTimeoutInputs == {S_continue, S_terminate, S_kill, S_KILL, S_abort}

\* Aliases given to start_process; "" stands for alias=None.
AliasNames == {"a"}
NoAlias == ""

\* The `handle` argument: None, a 1-based index, an alias, or a Popen object.
HandleNone == [kind |-> "none", n |-> 0, a |-> ""]
HandleIndex(i) == [kind |-> "index", n |-> i, a |-> ""]
HandleAlias(a) == [kind |-> "alias", n |-> 0, a |-> a]
HandleProc(p) == [kind |-> "proc", n |-> p, a |-> ""]

Handles ==
    {HandleNone}
        \cup {HandleIndex(i) : i \in 0 .. MaxSpawn + 1}
        \cup {HandleAlias(a) : a \in AliasNames \cup {"zz"}}
        \cup {HandleProc(p) : p \in 1 .. MaxSpawn}

\* The `signal` argument of send_signal_to_process: an integer or a name, the
\* name as its parts so that the "SIG" prefix can be told.
SigNum(n) == [tag |-> "num", n |-> n, s |-> <<>>]
SigStr(s) == [tag |-> "str", n |-> 0, s |-> s]

SignalInputs ==
    {SigNum(15), SigStr(<<"TERM">>), SigStr(<<"SIG", "TERM">>), SigStr(<<"term">>)}

\* The attributes of the signal module that the inputs can name.
SignalModule == (<<"SIG", "TERM">> :> 15) @@ (<<"SIG", "KILL">> :> 9)

\* os.sep tells the platforms apart.
Platforms == {"posix", "windows"}

\* ----------------------------------------------------------------- state

VARIABLES
    connections,  \* ConnectionCache._connections: the registered Popen objects
    aliases,      \* ConnectionCache._aliases: alias -> 1-based index
    current,      \* ConnectionCache.current: the active process or NoConnection
    results,      \* Process._results: Popen object -> ExecutionResult
    os,           \* the spawned OS processes, by process id
    pc,           \* where the controlling flow is
    ctx,          \* the arguments and locals of the keyword being executed
    elapsed,      \* time slept so far in the current _process_is_stopped loop
    sent,         \* the signals this keyword call has sent, in order
    outcome,      \* what the last keyword returned or raised (at pc = "done")
    platform,     \* the platform the library runs on
    environ,      \* os.environ of the process the library runs in
    held,         \* process -> the stream objects its ExecutionResult holds
    conf,         \* one ProcessConfiguration: the stream options and streams
    popen,        \* the Popen object started with conf
    execResult,   \* the ExecutionResult created for popen
    closed,       \* the streams that have been closed
    files,        \* the contents of the files on disk, by path
    ret           \* what the last accessor or keyword on execResult returned

\* The lifecycle model's variables and the variables of the model of one
\* configuration, its process and its result.
lifecycle ==
    <<connections, aliases, current, results, os, pc, ctx, elapsed, sent, outcome>>
resultWorld == <<environ, held, conf, popen, execResult, closed, files, ret>>

vars == <<lifecycle, platform, resultWorld>>

registry == <<connections, aliases, current>>

RcNone == "None"

\* The value of a variable that the specification at hand does not use.
NoValue == "unused"

\* ExecutionResult.__init__: rc unset, nothing read, streams open.
NewResult == [rc |-> RcNone, drained |-> FALSE, closed |-> FALSE]

\* A freshly spawned child.
NewChild == [alive |-> TRUE, pending |-> "none", returncode |-> RcNone]

EmptyMap == [x \in {} |-> 0]

CtxIdle ==
    [op |-> "", handle |-> HandleNone, p |-> 0, timeout |-> 0, on_timeout |-> <<>>,
     kill |-> FALSE, saved |-> NoConnection, idx |-> 0, from |-> "",
     timedOut |-> FALSE, cancelled |-> FALSE]

NoOutcome == [kind |-> "", p |-> 0, err |-> ""]
Returned(kind, p) == [kind |-> kind, p |-> p, err |-> ""]
Raised(err) == [kind |-> "error", p |-> 0, err |-> err]

\* os.environ when the library is loaded: variable name -> value.
OsEnviron == [name \in {"A", "B"} |-> "inherited"]

\* Process.__init__: nothing registered, no results, no call in progress.
LibraryInit ==
    /\ connections = <<>>
    /\ aliases = EmptyMap
    /\ current = NoConnection
    /\ results = EmptyMap
    /\ os = EmptyMap
    /\ pc = "idle"
    /\ ctx = CtxIdle
    /\ elapsed = 0
    /\ sent = <<>>
    /\ outcome = NoOutcome

Init ==
    /\ LibraryInit
    /\ platform = "posix"
    /\ environ = OsEnviron
    /\ held = EmptyMap
    /\ conf = NoValue
    /\ popen = NoValue
    /\ execResult = NoValue
    /\ closed = {}
    /\ files = EmptyMap
    /\ ret = NoValue


\* -------------------------------------------------- registry (ConnectionCache)

\* ConnectionCache.__bool__: there is an active connection.
HasCurrent == current # NoConnection

IsRegistered(p) == \E i \in 1 .. Len(connections) : connections[i] = p

\* ConnectionCache.get_connection / __getitem__: the error raised for `h`,
\* or "" when `h` resolves.
LookupError(h) ==
    CASE h.kind = "none" -> IF HasCurrent THEN "" ELSE "No active process."
      [] h.kind = "alias" ->
            IF h.a \in DOMAIN aliases THEN "" ELSE "Non-existing index or alias."
      [] h.kind = "proc" ->
            IF IsRegistered(h.n) THEN "" ELSE "Non-existing index or alias."
      [] h.kind = "index" ->
            IF 0 < h.n /\ h.n <= Len(connections) THEN ""
            ELSE "Non-existing index or alias."

\* ConnectionCache.get_connection: the process `h` resolves to.
Lookup(h) ==
    CASE h.kind = "none" -> current
      [] h.kind = "alias" -> connections[aliases[h.a]]
      [] h.kind = "proc" -> h.n
      [] h.kind = "index" -> connections[h.n]

\* Mutant: register accepts an alias that is already registered.
RegisterFails_Never(alias) == FALSE

\* ConnectionCache.register refuses an alias that is already registered.
RegisterFails(alias) == alias # NoAlias /\ alias \in DOMAIN aliases

\* ConnectionCache.register: the connection becomes current, is appended, and
\* its alias (if any) maps to its 1-based index.
Register(p, alias) ==
    /\ current' = p
    /\ connections' = Append(connections, p)
    /\ aliases' = IF alias = NoAlias THEN aliases
                  ELSE aliases @@ (alias :> Len(connections) + 1)

\* Mutant: without an active process every lookup reports "No active process.".
HandleError_ActiveFirst(h) == IF HasCurrent THEN LookupError(h) ELSE "No active process."

\* Every keyword resolves its handle argument with self._processes[handle].
HandleError(h) == LookupError(h)
HandleProcess_Active(h) == IF current # NoConnection THEN current ELSE Lookup(h)
HandleProcess(h) == Lookup(h)

\* ------------------------------------------------------ operating system

NextPid == Cardinality(DOMAIN os) + 1

\* Popen.poll() is None
Running(p) == os[p].alive

\* os.killpg(pid, sig) delivered: a live child now has the signal pending;
\* SIGKILL is never replaced by a later SIGTERM.
Deliver(o, p, sig) ==
    IF o[p].alive /\ o[p].pending # "KILL" THEN [o EXCEPT ![p].pending = sig] ELSE o

\* The exit statuses a child can end with, given the signal pending on it.
ExitCodes(pending) ==
    CASE pending = "KILL" -> {"-9"}
      [] pending = "TERM" -> {"-15"}
      [] OTHER -> {"0"}

\* A child exits: on its own, or by the signal pending on it.
ChildExits(p) ==
    /\ UNCHANGED <<platform, resultWorld>>
    /\ pc # "done"
    /\ p \in DOMAIN os
    /\ os[p].alive
    /\ \E code \in ExitCodes(os[p].pending) :
        os' = [os EXCEPT ![p].alive = FALSE, ![p].returncode = code]
    /\ UNCHANGED <<connections, aliases, current, results, pc, ctx, elapsed, sent, outcome>>

\* --------------------------------------------------------- pure helpers

\* timestr_to_secs on the inputs used here: a number is its own value.
TimestrToSecs(t) == t.n

\* Python truthiness of the timeout argument.
Truthy(t) ==
    CASE t.tag = "None" -> FALSE
      [] t.tag = "str" -> Len(t.s) > 0
      [] t.tag = "num" -> t.n # 0

\* Process._get_timeout
GetTimeout(t) ==
    IF (t.tag = "str" /\ Upper(t.s) = S_NONE) \/ ~Truthy(t) THEN -1
    ELSE TimestrToSecs(t)

\* Mutant: the fall-through of _manage_process_timeout terminates.
ManageProcessTimeout_FallsToTerminate(on_timeout) ==
    IF on_timeout = S_kill THEN "kill" ELSE "terminate"

\* Mutant: on_timeout=kill takes the graceful path.
ManageProcessTimeout_KillIsGraceful(on_timeout) ==
    IF on_timeout \in {S_terminate, S_kill} THEN "terminate" ELSE "continue"

\* Process._manage_process_timeout: what is done with the lower-cased value.
ManageProcessTimeout(on_timeout) ==
    IF on_timeout = S_terminate THEN "terminate"
    ELSE IF on_timeout = S_kill THEN "kill"
    ELSE "continue"

\* Process.terminate_process: terminator = self._kill if kill else self._terminate
Terminator(kill) == IF kill THEN "_kill" ELSE "_terminate"

\* The signal each terminator sends to the process group.
TerminatorSignal(terminator) == IF terminator = "_kill" THEN "KILL" ELSE "TERM"

\* Mutant: get_process_result does not look at rc.
ResultUnfinished_NeverChecked(result) == FALSE

\* Process.get_process_result: `if result.rc is None: raise`.
ResultUnfinished(result) == result.rc = RcNone

\* Mutant: run_process leaves the process it started active.
RestoredCurrent_NotRestored(saved, now) == now

\* Process.run_process: `finally: self._processes.current = current`.
RestoredCurrent(saved, now) == saved

\* Mutant: start_process returns the index that register() returned.
StartReturnValue_Index(newCurrent, index) == index

\* Process.start_process: `return self._processes.current`.
StartReturnValue(newCurrent, index) == newCurrent

\* Mutant: switch_process looks the handle up but leaves the active process.
SwitchedCurrent_Unchanged(now, target) == now

\* Process.switch_process: self._processes.switch(handle) makes the process
\* the handle resolves to the active one.
SwitchedCurrent(now, target) == target

\* Process._process_is_stopped: the loop sleeps again while the deadline has
\* not passed and the process has not stopped.
KeepsPolling(slept, timeout, running) == slept <= timeout /\ running


\* ------------------------------------------------------- control flow

PollPcs == {"wait_poll", "terminate_wait", "kill_wait", "oserror_wait"}

\* Mutant: _terminate waits KILL_TIMEOUT instead of TERMINATE_TIMEOUT.
PollTimeout_GraceIsKillTimeout ==
    IF pc = "wait_poll" THEN ctx.timeout ELSE KILL_TIMEOUT

\* Mutant: _kill waits TERMINATE_TIMEOUT instead of KILL_TIMEOUT.
PollTimeout_KillWaitsGracePeriod ==
    CASE pc = "wait_poll" -> ctx.timeout
      [] pc = "oserror_wait" -> KILL_TIMEOUT
      [] OTHER -> TERMINATE_TIMEOUT

\* The timeout the current _process_is_stopped call was given.
PollTimeout ==
    CASE pc = "wait_poll" -> ctx.timeout
      [] pc = "terminate_wait" -> TERMINATE_TIMEOUT
      [] OTHER -> KILL_TIMEOUT

\* The keyword's frames unwind with outcome `out` and locals `c`:
\* run_process restores the active process in its finally block,
\* terminate_all_processes goes on with the next handle after a result.
Finish(c, out) ==
    IF c.op = "terminate_all_processes" /\ out.kind = "result"
    THEN /\ pc' = "all_loop"
         /\ ctx' = [c EXCEPT !.idx = @ + 1]
         /\ outcome' = NoOutcome
         /\ elapsed' = 0
         /\ UNCHANGED current
    ELSE /\ pc' = "done"
         /\ ctx' = c
         /\ outcome' = out
         /\ elapsed' = 0
         /\ current' = IF c.op = "run_process" THEN RestoredCurrent(c.saved, current)
                       ELSE current

\* terminate_process once its handle is resolved to p: the terminator sends
\* its signal to the process group; os.killpg may raise OSError instead, which
\* terminate_process catches.  c is the keyword's locals.
Terminate(c, p, kill) ==
    LET terminator == Terminator(kill)
        sig == TerminatorSignal(terminator)
    IN  /\ sent' = Append(sent, [p |-> p, sig |-> sig, from |-> "terminate_process"])
        /\ elapsed' = 0
        /\ ctx' = [c EXCEPT !.p = p, !.kill = kill, !.from = "terminate_process",
                             !.handle = HandleNone]
        /\ outcome' = NoOutcome
        /\ \E delivered \in BOOLEAN :
            IF delivered
            THEN /\ os' = Deliver(os, p, sig)
                 /\ pc' = IF terminator = "_kill" THEN "kill_wait" ELSE "terminate_wait"
            ELSE /\ os' = os
                 /\ pc' = "oserror_wait"

\* Mutant: wait_for_process polls whatever the timeout is (the `timeout > 0`
\* test is missing).
Wait_AlwaysPolls(c, p, timeout) ==
    /\ ctx' = [c EXCEPT !.p = p, !.timeout = GetTimeout(timeout)]
    /\ pc' = "wait_poll"
    /\ elapsed' = 0
    /\ outcome' = NoOutcome

\* wait_for_process once its handle is resolved: poll up to the timeout when
\* it is positive, otherwise go straight to _wait.  The locals `handle` and
\* `on_timeout` are dropped from c once no later statement reads them.
Wait(c, p, timeout) ==
    /\ ctx' = IF GetTimeout(timeout) > 0
              THEN [c EXCEPT !.p = p, !.timeout = GetTimeout(timeout)]
              ELSE [c EXCEPT !.p = p, !.timeout = GetTimeout(timeout),
                             !.handle = HandleNone, !.on_timeout = <<>>]
    /\ pc' = IF GetTimeout(timeout) > 0 THEN "wait_poll" ELSE "drain"
    /\ elapsed' = 0
    /\ outcome' = NoOutcome

\* ---------------------------------------------------------- keywords

\* start_process: spawn, create the result, register (which makes the
\* process active), return the active process.
Start(alias) ==
    /\ pc = "idle"
    /\ NextPid <= MaxSpawn
    /\ LET p == NextPid
           c == [CtxIdle EXCEPT !.op = "start_process", !.p = p, !.saved = current]
       IN  /\ os' = os @@ (p :> NewChild)
           /\ results' = results @@ (p :> NewResult)
           /\ pc' = "done"
           /\ ctx' = c
           /\ IF RegisterFails(alias)
              THEN /\ outcome' = Raised("ConfigurationError")
                   /\ UNCHANGED <<connections, aliases, current>>
              ELSE /\ Register(p, alias)
                   /\ outcome' = Returned("handle",
                                           StartReturnValue(p, Len(connections) + 1))
    /\ UNCHANGED <<elapsed, sent>>

\* start_process with a configuration that raises nothing.
StartProcess(alias) ==
    /\ UNCHANGED <<platform, resultWorld>>
    /\ Start(alias)

\* run_process: remember the active process, start, wait, restore.
Run(alias, timeout, on_timeout) ==
    /\ pc = "idle"
    /\ NextPid <= MaxSpawn
    /\ LET p == NextPid
           c == [CtxIdle EXCEPT !.op = "run_process", !.handle = HandleProc(p),
                                !.on_timeout = on_timeout, !.saved = current]
       IN  /\ os' = os @@ (p :> NewChild)
           /\ results' = results @@ (p :> NewResult)
           /\ IF RegisterFails(alias)
              THEN /\ Finish([c EXCEPT !.p = p], Raised("ConfigurationError"))
                   /\ UNCHANGED <<connections, aliases>>
              ELSE /\ Register(p, alias)
                   /\ Wait(c, p, timeout)
    /\ UNCHANGED sent

\* run_process with a configuration that raises nothing.
RunProcess(alias, timeout, on_timeout) ==
    /\ UNCHANGED <<platform, resultWorld>>
    /\ Run(alias, timeout, on_timeout)

\* is_process_running
IsProcessRunning(h) ==
    /\ UNCHANGED <<platform, resultWorld>>
    /\ pc = "idle"
    /\ pc' = "done"
    /\ ctx' = [CtxIdle EXCEPT !.op = "is_process_running", !.handle = h,
                              !.saved = current,
                              !.p = IF HandleError(h) = "" THEN HandleProcess(h) ELSE 0]
    /\ outcome' = IF HandleError(h) # "" THEN Raised(HandleError(h))
                  ELSE Returned(IF Running(HandleProcess(h)) THEN "true" ELSE "false",
                                HandleProcess(h))
    /\ UNCHANGED <<connections, aliases, current, results, os, elapsed, sent>>

\* wait_for_process
WaitForProcess(h, timeout, on_timeout) ==
    /\ UNCHANGED <<platform, resultWorld>>
    /\ pc = "idle"
    /\ LET c == [CtxIdle EXCEPT !.op = "wait_for_process", !.handle = h,
                                !.on_timeout = on_timeout, !.saved = current]
       IN  IF HandleError(h) # ""
           THEN Finish(c, Raised(HandleError(h)))
           ELSE /\ Wait(c, HandleProcess(h), timeout)
                /\ UNCHANGED current
    /\ UNCHANGED <<connections, aliases, results, os, sent>>

\* Mutant: terminate_process signals the process and then forgets every
\* process, as terminate_all_processes does.
TerminateProcess_Unregisters(h, kill) ==
    /\ UNCHANGED <<platform, resultWorld>>
    /\ pc = "idle"
    /\ HandleError(h) = ""
    /\ connections' = <<>>
    /\ aliases' = EmptyMap
    /\ current' = NoConnection
    /\ results' = EmptyMap
    /\ pc' = "done"
    /\ ctx' = [CtxIdle EXCEPT !.op = "terminate_process", !.kill = kill,
                              !.saved = current]
    /\ outcome' = Returned("none", 0)
    /\ UNCHANGED <<os, elapsed, sent>>

\* terminate_process
TerminateProcess(h, kill) ==
    /\ UNCHANGED <<platform, resultWorld>>
    /\ pc = "idle"
    /\ LET c == [CtxIdle EXCEPT !.op = "terminate_process", !.handle = h,
                                !.saved = current]
       IN  IF HandleError(h) # ""
           THEN /\ Finish(c, Raised(HandleError(h)))
                /\ UNCHANGED <<os, sent>>
           ELSE /\ Terminate(c, HandleProcess(h), kill)
                /\ UNCHANGED current
    /\ UNCHANGED <<connections, aliases, results>>

\* terminate_all_processes: enter the loop over handles 1..len(self._processes).
TerminateAllProcesses(kill) ==
    /\ UNCHANGED <<platform, resultWorld>>
    /\ pc = "idle"
    /\ pc' = "all_loop"
    /\ ctx' = [CtxIdle EXCEPT !.op = "terminate_all_processes", !.kill = kill,
                              !.idx = 1, !.saved = current]
    /\ UNCHANGED <<connections, aliases, current, results, os, elapsed, sent, outcome>>

\* Process.__init__, as called at the end of terminate_all_processes.
Reinit ==
    /\ connections' = <<>>
    /\ aliases' = EmptyMap
    /\ current' = NoConnection
    /\ results' = EmptyMap

\* Mutant: the loop stops one handle early (range(1, len(self._processes))).
LoopFinished_OneEarly(idx, n) == idx >= n

\* terminate_all_processes: `for handle in range(1, len(self._processes) + 1)`
\* is exhausted.
LoopFinished(idx, n) == idx > n

\* Mutant: the loop terminates every registered process, stopped or not (the
\* is_process_running test is missing).
TerminateAllStep_TerminatesStopped ==
    /\ UNCHANGED <<platform, resultWorld>>
    /\ pc = "all_loop"
    /\ IF LoopFinished(ctx.idx, Len(connections))
       THEN /\ Reinit
            /\ pc' = "done"
            /\ outcome' = Returned("none", 0)
            /\ UNCHANGED <<os, ctx, elapsed, sent>>
       ELSE LET p == HandleProcess(HandleIndex(ctx.idx))
            IN  IF TRUE
                THEN /\ Terminate(ctx, p, ctx.kill)
                     /\ UNCHANGED <<connections, aliases, current, results>>
                ELSE /\ ctx' = [ctx EXCEPT !.idx = @ + 1]
                     /\ UNCHANGED <<connections, aliases, current, results, os, pc,
                                    elapsed, sent, outcome>>

\* One turn of the loop: past the last handle the library reinitialises
\* itself; a running process is terminated, a stopped one is skipped.
TerminateAllStep ==
    /\ UNCHANGED <<platform, resultWorld>>
    /\ pc = "all_loop"
    /\ IF LoopFinished(ctx.idx, Len(connections))
       THEN /\ Reinit
            /\ pc' = "done"
            /\ outcome' = Returned("none", 0)
            /\ UNCHANGED <<os, ctx, elapsed, sent>>
       ELSE LET p == HandleProcess(HandleIndex(ctx.idx))
            IN  IF Running(p)
                THEN /\ Terminate(ctx, p, ctx.kill)
                     /\ UNCHANGED <<connections, aliases, current, results>>
                ELSE /\ ctx' = [ctx EXCEPT !.idx = @ + 1]
                     /\ UNCHANGED <<connections, aliases, current, results, os, pc,
                                    elapsed, sent, outcome>>

\* get_process_result (without attribute selectors): what it returns or raises.
GetProcessResultOutcome(h) ==
    IF HandleError(h) # "" THEN Raised(HandleError(h))
    ELSE IF ResultUnfinished(results[HandleProcess(h)])
         THEN Raised("Getting results of unfinished processes is not supported.")
         ELSE Returned("result", HandleProcess(h))

\* get_process_result
GetProcessResult(h) ==
    /\ UNCHANGED <<platform, resultWorld>>
    /\ pc = "idle"
    /\ pc' = "done"
    /\ ctx' = [CtxIdle EXCEPT !.op = "get_process_result", !.handle = h,
                              !.saved = current,
                              !.p = IF HandleError(h) = "" THEN HandleProcess(h) ELSE 0]
    /\ outcome' = GetProcessResultOutcome(h)
    /\ UNCHANGED <<connections, aliases, current, results, os, elapsed, sent>>

\* get_process_id: the pid of the process the handle resolves to.
GetProcessId(h) ==
    /\ UNCHANGED <<platform, resultWorld>>
    /\ pc = "idle"
    /\ pc' = "done"
    /\ ctx' = [CtxIdle EXCEPT !.op = "get_process_id", !.handle = h,
                              !.saved = current,
                              !.p = IF HandleError(h) = "" THEN HandleProcess(h) ELSE 0]
    /\ outcome' = IF HandleError(h) # "" THEN Raised(HandleError(h))
                  ELSE Returned("pid", HandleProcess(h))
    /\ UNCHANGED <<connections, aliases, current, results, os, elapsed, sent>>

\* get_process_object: the process the handle resolves to.
GetProcessObject(h) ==
    /\ UNCHANGED <<platform, resultWorld>>
    /\ pc = "idle"
    /\ pc' = "done"
    /\ ctx' = [CtxIdle EXCEPT !.op = "get_process_object", !.handle = h,
                              !.saved = current,
                              !.p = IF HandleError(h) = "" THEN HandleProcess(h) ELSE 0]
    /\ outcome' = IF HandleError(h) # "" THEN Raised(HandleError(h))
                  ELSE Returned("process", HandleProcess(h))
    /\ UNCHANGED <<connections, aliases, current, results, os, elapsed, sent>>

\* Process._get_signal_number / _convert_signal_name_to_number: the number of
\* the signal, or 0 when the name is not an attribute of the signal module.
SignalNumber(signal) ==
    IF signal.tag = "num" THEN signal.n
    ELSE LET name == IF Len(signal.s) > 0 /\ signal.s[1] = "SIG" THEN signal.s
                     ELSE <<"SIG">> \o signal.s
         IN  IF name \in DOMAIN SignalModule THEN SignalModule[name] ELSE 0

\* The name this model gives the signal with the number n.
SignalName(n) == IF n = 9 THEN "KILL" ELSE "TERM"

\* Mutant: the platform check is missing.
UnsupportedPlatform_NeverChecked(pf) == FALSE

\* send_signal_to_process: `if os.sep == "\\"`.
UnsupportedPlatform(pf) == pf = "windows"

\* Mutant: the signal always goes to the process group.
SignalBranch_AlwaysGroup(group) == "send_signal_to_process/killpg"

\* send_signal_to_process: the branch that sends the signal.
SignalBranch(group) ==
    IF group THEN "send_signal_to_process/killpg"
    ELSE "send_signal_to_process/send_signal"

\* send_signal_to_process: platform check, lookup, signal number, then one
\* os.killpg or Popen.send_signal, either of which may raise OSError.
SendSignalToProcess(signal, h, group) ==
    /\ UNCHANGED <<platform, resultWorld>>
    /\ pc = "idle"
    /\ pc' = "done"
    /\ LET c == [CtxIdle EXCEPT !.op = "send_signal_to_process", !.handle = h,
                                !.saved = current]
       IN  IF UnsupportedPlatform(platform)
           THEN /\ ctx' = c
                /\ outcome' = Raised("This keyword does not work on Windows.")
                /\ UNCHANGED <<os, sent>>
           ELSE IF HandleError(h) # ""
           THEN /\ ctx' = c
                /\ outcome' = Raised(HandleError(h))
                /\ UNCHANGED <<os, sent>>
           ELSE IF SignalNumber(signal) = 0
           THEN /\ ctx' = [c EXCEPT !.p = HandleProcess(h)]
                /\ outcome' = Raised("Unsupported signal.")
                /\ UNCHANGED <<os, sent>>
           ELSE LET q == HandleProcess(h)
                    sig == SignalName(SignalNumber(signal))
                IN  /\ ctx' = [c EXCEPT !.p = q]
                    /\ sent' = Append(sent, [p |-> q, sig |-> sig,
                                             from |-> SignalBranch(group)])
                    /\ \E delivered \in BOOLEAN :
                        IF delivered
                        THEN /\ os' = Deliver(os, q, sig)
                             /\ outcome' = Returned("none", 0)
                        ELSE /\ os' = os
                             /\ outcome' = Raised("OSError")
    /\ UNCHANGED <<connections, aliases, current, results, elapsed>>

\* switch_process
SwitchProcess(h) ==
    /\ UNCHANGED <<platform, resultWorld>>
    /\ pc = "idle"
    /\ pc' = "done"
    /\ ctx' = [CtxIdle EXCEPT !.op = "switch_process", !.handle = h, !.saved = current,
                              !.p = IF HandleError(h) = "" THEN HandleProcess(h) ELSE 0]
    /\ IF HandleError(h) # ""
       THEN /\ outcome' = Raised(HandleError(h))
            /\ UNCHANGED current
       ELSE /\ outcome' = Returned("none", 0)
            /\ current' = SwitchedCurrent(current, HandleProcess(h))
    /\ UNCHANGED <<connections, aliases, results, os, elapsed, sent>>

\* The keyword has returned or raised; the caller goes on.
Return ==
    /\ UNCHANGED <<platform, resultWorld>>
    /\ pc = "done"
    /\ pc' = "idle"
    /\ ctx' = CtxIdle
    /\ outcome' = NoOutcome
    /\ sent' = <<>>
    /\ elapsed' = 0
    /\ UNCHANGED <<connections, aliases, current, results, os>>


\* ------------------------------------------- the blocking parts, step by step

\* _process_is_stopped: time.sleep(min(0.1, timeout)), in steps of TimeStep.
Sleep(timeout) == IF TimeStep < timeout THEN TimeStep ELSE timeout

\* _process_is_stopped: one time.sleep() of the polling loop.
PollSleep ==
    /\ UNCHANGED <<platform, resultWorld>>
    /\ pc \in PollPcs
    /\ KeepsPolling(elapsed, PollTimeout, Running(ctx.p))
    /\ elapsed' = elapsed + Sleep(PollTimeout)
    /\ UNCHANGED <<connections, aliases, current, results, os, pc, ctx, sent, outcome>>

\* Mutant: the loop of _process_is_stopped ends only when the process has
\* stopped (the `time.time() <= max_time` test is missing from its exit).
PollOver_OnlyWhenStopped == pc \in PollPcs /\ ~Running(ctx.p)

\* _process_is_stopped has left its loop and returns stopped().
PollOver == pc \in PollPcs /\ ~KeepsPolling(elapsed, PollTimeout, Running(ctx.p))

\* wait_for_process after polling: a stopped process is drained by _wait; on
\* timeout _manage_process_timeout terminates, kills or leaves the process.
WaitPollEnd ==
    /\ UNCHANGED <<platform, resultWorld>>
    /\ pc = "wait_poll"
    /\ PollOver
    /\ IF ~Running(ctx.p)
       THEN /\ pc' = "drain"
            /\ ctx' = [ctx EXCEPT !.handle = HandleNone, !.on_timeout = <<>>]
            /\ elapsed' = 0
            /\ UNCHANGED <<current, os, sent, outcome>>
       ELSE LET action == ManageProcessTimeout(Lower(ctx.on_timeout))
                c == [ctx EXCEPT !.timedOut = TRUE]
            IN  IF action = "continue"
                THEN /\ Finish([c EXCEPT !.handle = HandleNone], Returned("none", 0))
                     /\ UNCHANGED <<os, sent>>
                ELSE /\ Terminate(c, HandleProcess(ctx.handle), action = "kill")
                     /\ UNCHANGED current
    /\ UNCHANGED <<connections, aliases, results>>

\* Process._kill: SIGKILL to the process group.  An OSError from os.killpg
\* propagates; inside terminate_process's try block that is caught.
Kill(c, from) ==
    /\ sent' = Append(sent, [p |-> c.p, sig |-> "KILL", from |-> from])
    /\ \E delivered \in BOOLEAN :
        IF delivered
        THEN /\ os' = Deliver(os, c.p, "KILL")
             /\ pc' = "kill_wait"
             /\ ctx' = [c EXCEPT !.from = from]
             /\ elapsed' = 0
             /\ UNCHANGED <<current, outcome>>
        ELSE /\ os' = os
             /\ IF from = "_wait"
                THEN Finish(c, Raised("OSError"))
                ELSE /\ pc' = "oserror_wait"
                     /\ ctx' = [c EXCEPT !.from = from]
                     /\ elapsed' = 0
                     /\ UNCHANGED <<current, outcome>>

\* _terminate after its grace period: a stopped process is drained, a running
\* one is killed.
TerminateWaitEnd ==
    /\ UNCHANGED <<platform, resultWorld>>
    /\ pc = "terminate_wait"
    /\ PollOver
    /\ IF ~Running(ctx.p)
       THEN /\ pc' = "drain"
            /\ elapsed' = 0
            /\ ctx' = [ctx EXCEPT !.from = ""]
            /\ UNCHANGED <<current, os, sent, outcome>>
       ELSE Kill(ctx, "_terminate")
    /\ UNCHANGED <<connections, aliases, results>>

\* Mutant: a failed kill makes the library forget every process.
KillWaitEnd_ForgetsProcesses ==
    /\ UNCHANGED <<platform, resultWorld>>
    /\ pc = "kill_wait"
    /\ PollOver
    /\ Running(ctx.p)
    /\ pc' = "done"
    /\ ctx' = ctx
    /\ outcome' = Raised("Failed to kill process.")
    /\ elapsed' = 0
    /\ Reinit
    /\ UNCHANGED <<os, sent>>

\* _kill after its wait: "Failed to kill process." when still running;
\* otherwise the caller goes on (_wait re-raises the Robot timeout it caught).
KillWaitEnd ==
    /\ UNCHANGED <<platform, resultWorld>>
    /\ pc = "kill_wait"
    /\ PollOver
    /\ IF Running(ctx.p)
       THEN /\ Finish(ctx, Raised("Failed to kill process."))
            /\ UNCHANGED <<os, sent>>
       ELSE IF ctx.from = "_wait"
            THEN /\ Finish(ctx, Raised("TimeoutExceeded"))
                 /\ UNCHANGED <<os, sent>>
            ELSE /\ pc' = "drain"
                 /\ elapsed' = 0
                 /\ ctx' = [ctx EXCEPT !.from = ""]
                 /\ UNCHANGED <<current, os, sent, outcome>>
    /\ UNCHANGED <<connections, aliases, results>>

\* Mutant: terminate_process swallows the OSError whether or not the process
\* has stopped (`except OSError: pass` after the wait).
OsErrorWaitEnd_Swallows ==
    /\ UNCHANGED <<platform, resultWorld>>
    /\ pc = "oserror_wait"
    /\ PollOver
    /\ pc' = "drain"
    /\ elapsed' = 0
    /\ ctx' = [ctx EXCEPT !.from = ""]
    /\ UNCHANGED <<connections, aliases, current, results, os, sent, outcome>>

\* terminate_process's `except OSError`: ignored if the process has stopped
\* within KILL_TIMEOUT, re-raised otherwise.
OsErrorWaitEnd ==
    /\ UNCHANGED <<platform, resultWorld>>
    /\ pc = "oserror_wait"
    /\ PollOver
    /\ IF Running(ctx.p)
       THEN /\ Finish(ctx, Raised("OSError"))
            /\ UNCHANGED <<os, sent>>
       ELSE /\ pc' = "drain"
            /\ elapsed' = 0
            /\ ctx' = [ctx EXCEPT !.from = ""]
            /\ UNCHANGED <<current, os, sent, outcome>>
    /\ UNCHANGED <<connections, aliases, results>>

\* ExecutionResult after _wait: outputs stored, rc set, streams closed.
Finalized(result, returncode) ==
    [result EXCEPT !.drained = TRUE, !.rc = returncode, !.closed = TRUE]

\* _wait: communicate() returns once the process has exited; the result is
\* finalized and returned.
WaitDone ==
    /\ UNCHANGED <<platform, resultWorld>>
    /\ pc = "drain"
    /\ ~Running(ctx.p)
    /\ results' = [results EXCEPT ![ctx.p] = Finalized(@, os[ctx.p].returncode)]
    /\ Finish(ctx, Returned("result", ctx.p))
    /\ UNCHANGED <<connections, aliases, os, sent>>

\* _wait: a Robot timeout (TimeoutExceeded) is raised during communicate();
\* the process is killed and the timeout re-raised.
WaitCancelled ==
    /\ UNCHANGED <<platform, resultWorld>>
    /\ pc = "drain"
    /\ ~ctx.cancelled
    /\ Kill([ctx EXCEPT !.cancelled = TRUE], "_wait")
    /\ UNCHANGED <<connections, aliases, results>>

\* A Robot timeout raised while _process_is_stopped sleeps: nothing catches
\* it, it propagates to the caller.
PollCancelled ==
    /\ UNCHANGED <<platform, resultWorld>>
    /\ pc \in PollPcs
    /\ ~ctx.cancelled
    /\ Finish([ctx EXCEPT !.cancelled = TRUE, !.handle = HandleNone],
              Raised("TimeoutExceeded"))
    /\ UNCHANGED <<connections, aliases, results, os, sent>>

\* ------------------------------------------------------- specification


Next ==
    \/ \E alias \in AliasNames \cup {NoAlias} : StartProcess(alias)
    \/ \E alias \in AliasNames \cup {NoAlias}, t \in TimeoutInputs, o \in OnTimeoutInputs :
        RunProcess(alias, t, o)
    \/ \E h \in Handles : IsProcessRunning(h)
    \/ \E h \in Handles, t \in TimeoutInputs, o \in OnTimeoutInputs :
        WaitForProcess(h, t, o)
    \/ \E h \in Handles, kill \in BOOLEAN : TerminateProcess(h, kill)
    \/ \E kill \in BOOLEAN : TerminateAllProcesses(kill)
    \/ TerminateAllStep
    \/ \E h \in Handles : GetProcessResult(h)
    \/ \E h \in Handles : GetProcessId(h)
    \/ \E h \in Handles : GetProcessObject(h)
    \/ \E h \in Handles : SwitchProcess(h)
    \/ \E signal \in SignalInputs, h \in Handles, group \in BOOLEAN :
         SendSignalToProcess(signal, h, group)
    \/ Return
    \/ PollSleep
    \/ WaitPollEnd
    \/ TerminateWaitEnd
    \/ KillWaitEnd
    \/ OsErrorWaitEnd
    \/ WaitDone
    \/ WaitCancelled
    \/ PollCancelled
    \/ \E p \in 1 .. MaxSpawn : ChildExits(p)

Spec == Init /\ [][Next]_vars

\* Waiting, with the scheduling that the code gives: a keyword that has been
\* called runs on, so each step of its polling loops and of _wait is taken
\* once it stays possible.  Nothing makes a child exit, the caller call or
\* return, or Robot's timeout arrive.
NextWait ==
    \/ \E alias \in {NoAlias} : StartProcess(alias)
    \/ \E h \in Handles, t \in TimeoutInputs, o \in OnTimeoutInputs :
        WaitForProcess(h, t, o)
    \/ Return
    \/ PollSleep
    \/ WaitPollEnd
    \/ TerminateWaitEnd
    \/ KillWaitEnd
    \/ OsErrorWaitEnd
    \/ WaitDone
    \/ WaitCancelled
    \/ PollCancelled
    \/ \E p \in 1 .. MaxSpawn : ChildExits(p)

KeywordRuns ==
    /\ WF_vars(PollSleep)
    /\ WF_vars(WaitPollEnd)
    /\ WF_vars(TerminateWaitEnd)
    /\ WF_vars(KillWaitEnd)
    /\ WF_vars(OsErrorWaitEnd)
    /\ WF_vars(WaitDone)

SpecWait == Init /\ [][NextWait]_vars /\ KeywordRuns

\* The library on Windows (os.sep is a backslash), with the keywords that do
\* not go through os.killpg.
InitWindows ==
    /\ LibraryInit
    /\ platform = "windows"
    /\ environ = OsEnviron
    /\ held = EmptyMap
    /\ conf = NoValue
    /\ popen = NoValue
    /\ execResult = NoValue
    /\ closed = {}
    /\ files = EmptyMap
    /\ ret = NoValue

NextWindows ==
    \/ \E alias \in AliasNames \cup {NoAlias} : StartProcess(alias)
    \/ \E h \in Handles : IsProcessRunning(h)
    \/ \E h \in Handles : GetProcessId(h)
    \/ \E h \in Handles : SwitchProcess(h)
    \/ \E signal \in SignalInputs, h \in Handles, group \in BOOLEAN :
         SendSignalToProcess(signal, h, group)
    \/ Return
    \/ \E p \in 1 .. MaxSpawn : ChildExits(p)

SpecWindows == InitWindows /\ [][NextWindows]_vars


\* ============================ one configuration, its process and its result

\* ---------------------------------------------------------------- inputs

\* Output is a sequence of characters; carriage return and line feed matter.
CR == "CR"
LF == "LF"
Chars == {"a", CR, LF}
Contents == UNION {[1 .. k -> Chars] : k \in 0 .. MaxLen}

\* A Python value that is None or a string.
PyNone == [isNone |-> TRUE, s |-> <<>>]
Str(s) == [isNone |-> FALSE, s |-> s]

\* The stdout and stderr options; NoName stands for None and for "".
NoName == ""
StdoutInputs == {NoName, "out.txt", "DEVNULL"}
StderrInputs == {NoName, "STDOUT", "out.txt", "./out.txt", "err.txt", "DEVNULL"}

\* What the process writes to its stdout and to its stderr.
StdoutWritten == Contents
StderrWritten == {<<>>, <<"a", LF>>}

\* What somebody else may later write into a file the process wrote.
OtherContent == <<"a", "a">>

\* ----------------------------------------------------- ProcessConfiguration

\* subprocess.PIPE, subprocess.STDOUT, None, and an open file object.
PIPE == [kind |-> "PIPE", id |-> 0, name |-> ""]
STDOUT == [kind |-> "STDOUT", id |-> 0, name |-> ""]
NoStream == [kind |-> "None", id |-> 0, name |-> ""]
FileStream(id, name) == [kind |-> "file", id |-> id, name |-> name]
PipeEnd(id) == [kind |-> "pipe end", id |-> id, name |-> ""]

DevNull == "/dev/null"

\* os.path.normpath(os.path.join(self.cwd, name)), relative to cwd.
NormPath(name) == IF name = "./out.txt" THEN "out.txt" ELSE name

\* ProcessConfiguration._new_stream; id names the file object it opens.
NewStream(name, id) ==
    IF name = "DEVNULL" THEN FileStream(id, DevNull)
    ELSE IF name # NoName THEN FileStream(id, NormPath(name))
    ELSE PIPE

\* Mutant: stderr is always resolved on its own.
GetStderr_Independent(stderr, stdout, stdout_stream, id) == NewStream(stderr, id)

\* ProcessConfiguration._get_stderr
GetStderr(stderr, stdout, stdout_stream, id) ==
    IF stderr # NoName /\ stderr \in {"STDOUT", stdout}
    THEN IF stdout_stream # PIPE THEN stdout_stream ELSE STDOUT
    ELSE NewStream(stderr, id)

\* ProcessConfiguration.__init__, for the stream options.
Configuration(stdout, stderr) ==
    LET stdout_stream == NewStream(stdout, 1)
    IN  [stdout |-> stdout, stderr |-> stderr,
         stdout_stream |-> stdout_stream,
         stderr_stream |-> GetStderr(stderr, stdout, stdout_stream, 2),
         stdin_stream |-> NoStream]

\* ---------------------------------------------------------- ExecutionResult

\* ExecutionResult._is_custom_stream
IsCustomStream(stream) == stream \notin {PIPE, STDOUT, NoStream}

\* ExecutionResult._get_path; "" stands for None.
GetPath(stream) == IF IsCustomStream(stream) THEN stream.name ELSE ""

\* ExecutionResult.__init__
NewExecutionResult(stdout, stderr, stdin) ==
    [rc |-> RcNone,
     stdout_path |-> GetPath(stdout),
     stderr_path |-> GetPath(stderr),
     _stdout |-> PyNone,
     _stderr |-> PyNone,
     _custom_streams |-> SelectSeq(<<stdout, stderr, stdin>>, IsCustomStream)]

\* console_decode leaves the characters used here as they are.
ConsoleDecode(output) == output

\* str.replace("\r\n", "\n"): left to right, without rescanning.
RECURSIVE ReplaceCrLf(_)
ReplaceCrLf(s) ==
    IF Len(s) = 0 THEN <<>>
    ELSE IF Len(s) >= 2 /\ s[1] = CR /\ s[2] = LF
         THEN <<LF>> \o ReplaceCrLf(SubSeq(s, 3, Len(s)))
         ELSE <<s[1]>> \o ReplaceCrLf(Tail(s))

\* `if output.endswith("\n"): output = output[:-1]`
StripNewline(s) ==
    IF Len(s) > 0 /\ s[Len(s)] = LF THEN SubSeq(s, 1, Len(s) - 1) ELSE s

\* Mutant: the normalization is applied a second time to its own result.
FormatOutput_Twice(output) ==
    IF output.isNone THEN PyNone
    ELSE Str(StripNewline(ReplaceCrLf(StripNewline(ReplaceCrLf(ConsoleDecode(output.s))))))

\* ExecutionResult._format_output
FormatOutput(output) ==
    IF output.isNone THEN PyNone
    ELSE Str(StripNewline(ReplaceCrLf(ConsoleDecode(output.s))))

\* ExecutionResult._is_open, given the set cl of closed streams.
IsOpen(stream, cl) == stream # NoStream /\ stream.id \notin cl

\* What stream.read() returns for the read end of one of popen's pipes.
PipeContent(stream) == IF stream = popen.stdout THEN popen.outBuf ELSE popen.errBuf

\* Mutant: a stream that is absent or closed yields None instead of "".
ReadStream_NoneWhenClosed(stream_path, stream, cl) ==
    IF stream_path # ""
    THEN FormatOutput(Str(files[stream_path]))
    ELSE IF ~IsOpen(stream, cl) THEN PyNone
    ELSE FormatOutput(Str(PipeContent(stream)))

\* ExecutionResult._read_stream
ReadStream(stream_path, stream, cl) ==
    IF stream_path # ""
    THEN FormatOutput(Str(files[stream_path]))
    ELSE IF ~IsOpen(stream, cl) THEN Str(<<>>)
    ELSE FormatOutput(Str(PipeContent(stream)))

\* ExecutionResult._read_stdout and _read_stderr, on the result r.
ReadStdout(r, cl) == [r EXCEPT !._stdout = ReadStream(r.stdout_path, popen.stdout, cl)]
ReadStderr(r, cl) == [r EXCEPT !._stderr = ReadStream(r.stderr_path, popen.stderr, cl)]

\* Mutant: the stdout property reads its destination on every access.
AfterStdout_AlwaysReads(r, cl) == ReadStdout(r, cl)

\* The stdout and stderr properties: read on first use, then the stored value.
AfterStdout(r, cl) == IF r._stdout.isNone THEN ReadStdout(r, cl) ELSE r
AfterStderr(r, cl) == IF r._stderr.isNone THEN ReadStderr(r, cl) ELSE r

\* ExecutionResult._get_and_read_standard_streams: the result afterwards.
AfterReadStandardStreams(r, cl) ==
    LET r1 == IF IsOpen(popen.stdout, cl) THEN ReadStdout(r, cl) ELSE r
    IN  IF IsOpen(popen.stderr, cl) THEN ReadStderr(r1, cl) ELSE r1

\* Mutant: close_streams closes the process's own streams only.
StreamsToClose_StandardOnly(r, cl) ==
    LET streams == <<popen.stdin, popen.stdout, popen.stderr>>
    IN  {streams[i].id : i \in {j \in DOMAIN streams : IsOpen(streams[j], cl)}}

\* Mutant: close_streams closes each stream of its list without looking at
\* whether it is open.
RECURSIVE CloseCalls_Unconditional(_, _)
CloseCalls_Unconditional(streams, cl) ==
    IF streams = <<>> THEN <<>>
    ELSE IF Head(streams) # NoStream
    THEN <<Head(streams).id>> \o CloseCalls_Unconditional(Tail(streams), cl)
    ELSE CloseCalls_Unconditional(Tail(streams), cl)

\* ExecutionResult.close_streams, the loop: the close() calls it makes, in
\* order, when the streams in cl are closed already.
RECURSIVE CloseCalls(_, _)
CloseCalls(streams, cl) ==
    IF streams = <<>> THEN <<>>
    ELSE IF IsOpen(Head(streams), cl)
    THEN <<Head(streams).id>> \o CloseCalls(Tail(streams), cl \cup {Head(streams).id})
    ELSE CloseCalls(Tail(streams), cl)

\* ExecutionResult.close_streams: standard_streams + self._custom_streams.
CloseStreams(r, cl) ==
    CloseCalls(<<popen.stdin, popen.stdout, popen.stderr>> \o r._custom_streams, cl)

\* ExecutionResult.close_streams: the streams it finds open and closes.
StreamsToClose(r, cl) == {CloseStreams(r, cl)[i] : i \in DOMAIN CloseStreams(r, cl)}

\* subprocess.Popen(command, **conf.popen_config): a pipe end for each PIPE.
NewPopen(c, out, err) ==
    [alive |-> TRUE, returncode |-> RcNone,
     stdin |-> IF c.stdin_stream = PIPE THEN PipeEnd(6) ELSE NoStream,
     stdout |-> IF c.stdout_stream = PIPE THEN PipeEnd(3) ELSE NoStream,
     stderr |-> IF c.stderr_stream = PIPE THEN PipeEnd(4) ELSE NoStream,
     writesOut |-> out, writesErr |-> err,
     outBuf |-> <<>>, errBuf |-> <<>>]

\* The files that open(path, "w") has created or emptied.
NewFiles == [path \in {"out.txt", "err.txt", DevNull} |-> <<>>]

\* What the last call returned: the call and its selectors, the kind of
\* value, the attribute values (for _wait the close() calls that
\* close_streams made), whether the call read a destination, and a mark
\* telling one call from the next.
NoRet ==
    [op |-> "", args |-> <<>>, kind |-> "", items |-> <<>>, read |-> FALSE,
     mark |-> FALSE]
Ret(op, args, kind, items, read) ==
    [op |-> op, args |-> args, kind |-> kind, items |-> items, read |-> read,
     mark |-> ~ret.mark]

\* start_process has configured and started one process and created its
\* result; the library itself is not looked at.
InitResult ==
    /\ LibraryInit
    /\ platform = "posix"
    /\ environ = OsEnviron
    /\ held = EmptyMap
    /\ \E stdout \in StdoutInputs, stderr \in StderrInputs,
          out \in StdoutWritten, err \in StderrWritten :
        /\ conf = Configuration(stdout, stderr)
        /\ popen = NewPopen(Configuration(stdout, stderr), out, err)
        /\ execResult =
                NewExecutionResult(Configuration(stdout, stderr).stdout_stream,
                                   Configuration(stdout, stderr).stderr_stream,
                                   Configuration(stdout, stderr).stdin_stream)
    /\ closed = {}
    /\ files = NewFiles
    /\ ret = NoRet

\* b written over the beginning of a: two file objects on one path, each
\* writing from offset 0.
Overlay(a, b) == b \o SubSeq(a, Len(b) + 1, Len(a))

\* The file contents once the process has written out to the stream so and
\* err to the stream se.
Written(f, so, se, out, err) ==
    LET po == so.name
        pe == se.name
        outFile == so.kind = "file" /\ po # DevNull
        errFile == se.kind = "file" /\ pe # DevNull
    IN  IF outFile /\ errFile /\ so = se
        THEN {[f EXCEPT ![po] = out \o err]}
        ELSE IF outFile /\ errFile /\ po = pe
        THEN {[f EXCEPT ![po] = Overlay(out, err)], [f EXCEPT ![po] = Overlay(err, out)]}
        ELSE IF outFile /\ errFile
        THEN {[f EXCEPT ![po] = out, ![pe] = err]}
        ELSE IF outFile THEN {[f EXCEPT ![po] = out]}
        ELSE IF errFile THEN {[f EXCEPT ![pe] = err]}
        ELSE {f}

\* The child writes its output to where its stdout and stderr lead and exits.
PopenExits ==
    /\ popen.alive
    /\ files' \in Written(files, conf.stdout_stream, conf.stderr_stream,
                          popen.writesOut, popen.writesErr)
    /\ popen' = [popen EXCEPT
            !.alive = FALSE,
            !.returncode = "0",
            !.outBuf = IF conf.stdout_stream # PIPE THEN <<>>
                       ELSE IF conf.stderr_stream = STDOUT
                            THEN popen.writesOut \o popen.writesErr
                            ELSE popen.writesOut,
            !.errBuf = IF conf.stderr_stream = PIPE THEN popen.writesErr ELSE <<>>]
    /\ UNCHANGED <<lifecycle, platform, environ, held, conf, execResult, closed, ret>>

\* Mutant: the pipes are read after they have been closed.
Communicated_AfterClose(stream) == IF stream = NoStream THEN PyNone ELSE Str(<<>>)

\* Popen.communicate() on an exited process: the data of each pipe, None for
\* a stream that is not a pipe.
Communicated(stream) == IF stream = NoStream THEN PyNone ELSE Str(PipeContent(stream))

\* Popen.communicate() closes its stdin pipe and the pipe ends it has read to
\* the end.
PipeEnds == {popen.stdin.id, popen.stdout.id, popen.stderr.id} \ {0}

\* Process._wait: `if process.stdin and process.stdin.closed:
\* process.stdin = None`.
StdinForCommunicate(stdin, cl) ==
    IF stdin # NoStream /\ stdin.id \in cl THEN NoStream ELSE stdin

\* Process._wait on the exited process: the stdin test, communicate(), the
\* stdout and stderr setters, rc, close_streams(); it returns the result.
WaitResult ==
    /\ ~popen.alive
    /\ LET cl == closed \cup PipeEnds
           r1 == [execResult EXCEPT
                    !._stdout = FormatOutput(Communicated(popen.stdout)),
                    !._stderr = FormatOutput(Communicated(popen.stderr))]
           r2 == [r1 EXCEPT !.rc = popen.returncode]
           r3 == AfterReadStandardStreams(r2, cl)
       IN  /\ execResult' = r3
           /\ closed' = cl \cup StreamsToClose(r3, cl)
           /\ ret' = Ret("_wait", <<>>, "result", CloseStreams(r3, cl), FALSE)
    /\ popen' = [popen EXCEPT !.stdin = StdinForCommunicate(@, closed)]
    /\ UNCHANGED <<lifecycle, platform, environ, held, conf, files>>

\* result.stdout read by the caller that holds the finalized result.
StdoutAccess ==
    /\ execResult.rc # RcNone
    /\ execResult' = AfterStdout(execResult, closed)
    /\ ret' = Ret("stdout", <<>>, "value", <<execResult'._stdout>>, execResult._stdout.isNone)
    /\ UNCHANGED <<lifecycle, platform, environ, held, conf, popen, closed, files>>

\* result.stderr read by the caller that holds the finalized result.
StderrAccess ==
    /\ execResult.rc # RcNone
    /\ execResult' = AfterStderr(execResult, closed)
    /\ ret' = Ret("stderr", <<>>, "value", <<execResult'._stderr>>, execResult._stderr.isNone)
    /\ UNCHANGED <<lifecycle, platform, environ, held, conf, popen, closed, files>>

\* A path attribute as a Python value: None when the stream has no path.
PathValue(path) == IF path = "" THEN PyNone ELSE Str(<<path>>)

\* The selectors of get_process_result: rc, stdout, stderr, stdout_path,
\* stderr_path.
Selectors == [1 .. 5 -> BOOLEAN]
Selected(set) == [i \in 1 .. 5 |-> i \in set]

\* The selections that calls are made with.
SelectorInputs == {Selected({}), Selected({1}), Selected({2}), Selected({2, 3}),
                   Selected(1 .. 5)}

\* tuple(attr for attr, incl in zip(attributes, includes) if incl)
RECURSIVE Included(_, _)
Included(attributes, includes) ==
    IF attributes = <<>> THEN <<>>
    ELSE (IF Head(includes) THEN <<Head(attributes)>> ELSE <<>>)
            \o Included(Tail(attributes), Tail(includes))

\* Process._get_result_attributes on the result r with both outputs read.
GetResultAttributes(r, includes) ==
    Included(<<Str(<<r.rc>>), r._stdout, r._stderr,
               PathValue(r.stdout_path), PathValue(r.stderr_path)>>, includes)

\* Mutant: a single attribute is returned in a tuple as well.
ResultValue_TupleOfOne(attributes) ==
    IF attributes = <<>> THEN [kind |-> "result", items |-> <<>>]
    ELSE [kind |-> "tuple", items |-> attributes]

\* Mutant: of several attributes only the first is returned, as a bare value.
ResultValue_FirstOfSeveral(attributes) ==
    IF attributes = <<>> THEN [kind |-> "result", items |-> <<>>]
    ELSE [kind |-> "value", items |-> <<attributes[1]>>]

\* get_process_result: the result, the only attribute, or the tuple.
ResultValue(attributes) ==
    IF attributes = <<>> THEN [kind |-> "result", items |-> <<>>]
    ELSE IF Len(attributes) = 1 THEN [kind |-> "value", items |-> attributes]
    ELSE [kind |-> "tuple", items |-> attributes]

\* Process.get_process_result on the handle of this process.
GetResult(includes) ==
    /\ IF execResult.rc = RcNone
       THEN /\ ret' = Ret("get_process_result", includes, "error", <<>>, FALSE)
            /\ UNCHANGED execResult
       ELSE LET r == AfterStderr(AfterStdout(execResult, closed), closed)
                value == ResultValue(GetResultAttributes(r, includes))
            IN  /\ execResult' = r
                /\ ret' = Ret("get_process_result", includes, value.kind, value.items,
                              execResult._stdout.isNone \/ execResult._stderr.isNone)
    /\ UNCHANGED <<lifecycle, platform, environ, held, conf, popen, closed, files>>

\* Something else writes the file that an output was redirected to, for
\* example another process started with the same stdout or stderr path.
FileRewritten(path) ==
    /\ path \in {conf.stdout_stream.name, conf.stderr_stream.name} \ {"", DevNull}
    /\ files[path] # OtherContent
    /\ files' = [files EXCEPT ![path] = OtherContent]
    /\ UNCHANGED <<lifecycle, platform, environ, held, conf, popen, execResult, closed, ret>>

NextResult ==
    \/ PopenExits
    \/ WaitResult
    \/ StdoutAccess
    \/ StderrAccess
    \/ \E includes \in SelectorInputs : GetResult(includes)
    \/ \E path \in DOMAIN NewFiles : FileRewritten(path)

SpecResult == InitResult /\ [][NextResult]_vars


\* ================================================ configuring a new process

\* ---------------------------------------------------------------- inputs

S_PIPE == <<"P", "I", "P", "E">>
S_pipe == <<"p", "i", "p", "e">>
S_Pipe == <<"P", "i", "p", "e">>
S_in == <<"i", "n">>
S_hi == <<"h", "i">>

\* The `stdin` argument: None, a string, a pathlib.Path, or another object
\* such as the stdout stream of a process started earlier.
StdinNone == [type |-> "NoneType", s |-> <<>>, obj |-> NoStream]
StdinStr(s) == [type |-> "str", s |-> s, obj |-> NoStream]
StdinPath(s) == [type |-> "Path", s |-> s, obj |-> NoStream]
StdinObject(obj) == [type |-> "object", s |-> <<>>, obj |-> obj]

\* The stream object s that was created for process p: every process has
\* file objects and pipe ends of its own.
ObjectOf(p, s) == [s EXCEPT !.id = 10 * p + @]

\* process.stdout of the process started first, with stdout on a pipe.
OtherStdout == ObjectOf(1, PipeEnd(3))

StdinInputs ==
    {StdinNone, StdinObject(OtherStdout)}
        \cup {StdinStr(s) : s \in {S_NONE, S_none, S_NoNe, S_PIPE, S_pipe, S_Pipe,
                                   S_in, S_hi}}
        \cup {StdinPath(s) : s \in {S_in, S_hi, S_PIPE, S_NONE}}

\* The `env` argument: None or a mapping from names to values.
EnvNone == [isNone |-> TRUE, d |-> EmptyMap]
EnvDict(d) == [isNone |-> FALSE, d |-> d]
EnvInputs == {EnvNone, EnvDict(EmptyMap), EnvDict("A" :> "given")}

\* The name of an extra keyword argument, split where name[4:] splits it.
Key(head, rest) == [head |-> head, rest |-> rest]
ExtraInputs ==
    {EmptyMap, Key("env:", "A") :> "over", Key("env:", "C") :> "over",
     Key("", "bogus") :> "x"}

\* A path in a directory that does not exist: open(path, "w") raises.
Unopenable == {"nodir/out.txt"}

\* The configuration arguments of start_process and run_process.
DefaultArgs ==
    [stdout |-> NoName, stderr |-> NoName, stdin |-> StdinNone, env |-> EnvNone,
     extra |-> EmptyMap]

ConfigInputs ==
    {[DefaultArgs EXCEPT !.stdin = s] : s \in StdinInputs}
        \cup {[DefaultArgs EXCEPT !.env = e, !.extra = x] :
                    e \in EnvInputs, x \in ExtraInputs}
        \cup {[DefaultArgs EXCEPT !.stdout = o, !.stderr = e] :
                    o \in {NoName, "in", "nodir/out.txt"},
                    e \in {NoName, "STDOUT", "err.txt", "nodir/out.txt"}}
        \cup {[DefaultArgs EXCEPT !.stdout = "in", !.stdin = StdinStr(S_hi),
                                  !.extra = Key("", "bogus") :> "x"]}

\* The files in the working directory before any process is started.
ConfigFiles == ("in" :> <<"a">>) @@ ("err.txt" :> OtherContent)

\* The file that tempfile.TemporaryFile() creates.
TempFile == "<temporary>"

\* ----------------------------------------------------- ProcessConfiguration

\* A Python string as a file name.
RECURSIVE PathName(_)
PathName(s) == IF s = <<>> THEN "" ELSE Head(s) \o PathName(Tail(s))

\* robot.utils.system_encode and console_encode(..., force=True) on text
\* the encoding can represent.
SystemEncode(s) == s
ConsoleEncode(s) == s

\* os.path.isfile(path) in the file system f.
IsFile(path, f) == path \in DOMAIN f

\* ProcessConfiguration._new_stream: open(path, "w") raises OSError.
OpenFails(name) == name \notin {NoName, "DEVNULL"} /\ NormPath(name) \in Unopenable

\* ProcessConfiguration._get_stderr opens a file of its own.
StderrIsOwn(stderr, stdout) == ~(stderr # NoName /\ stderr \in {"STDOUT", stdout})

\* The paths that __init__ has opened for writing when it returns or raises.
OpenedForWriting(args) ==
    LET named(name) == name \notin {NoName, "DEVNULL"}
    IN  IF OpenFails(args.stdout) THEN {}
        ELSE {path \in {NormPath(args.stdout)} : named(args.stdout)}
             \cup {path \in {NormPath(args.stderr)} :
                      /\ StderrIsOwn(args.stderr, args.stdout)
                      /\ named(args.stderr)
                      /\ ~OpenFails(args.stderr)}

\* The file system once stdout and stderr are opened: open(path, "w")
\* creates the file or empties it.
AfterOpening(f, args) ==
    [path \in DOMAIN f \cup OpenedForWriting(args) |->
        IF path \in OpenedForWriting(args) THEN <<>> ELSE f[path]]

\* ProcessConfiguration._get_stdin, from `path = os.path.normpath(...)` on;
\* id names the file object it opens.
FileOrText(s, f, id) ==
    IF IsFile(NormPath(PathName(s)), f)
    THEN FileStream(id, NormPath(PathName(s)))
    ELSE FileStream(id, TempFile)

\* Mutant: PIPE is recognised in any letter case.
StdinIsPipe_AnyCase(s) == Upper(s) = S_PIPE

\* ProcessConfiguration._get_stdin: `stdin == "PIPE"`.
StdinIsPipe(s) == s = S_PIPE

\* Mutant: only a string is ever taken as a file name or as text.
StdinIsText_StrOnly(stdin) == stdin.type = "str"

\* ProcessConfiguration._get_stdin: a Path is converted to a string and goes
\* straight to the file test; a string goes there unless it is a marker.
StdinIsText(stdin) ==
    \/ stdin.type = "Path"
    \/ stdin.type = "str" /\ Upper(stdin.s) # S_NONE /\ ~StdinIsPipe(stdin.s)

\* ProcessConfiguration._get_stdin in the file system f.
GetStdin(stdin, f, id) ==
    IF StdinIsText(stdin) THEN FileOrText(stdin.s, f, id)
    ELSE IF stdin.type = "object" THEN stdin.obj
    ELSE IF stdin.type = "str" /\ StdinIsPipe(stdin.s) THEN PIPE
    ELSE NoStream

\* The file system once stdin is resolved: the temporary file holds the text.
AfterStdin(f, stdin) ==
    IF StdinIsText(stdin) /\ ~IsFile(NormPath(PathName(stdin.s)), f)
    THEN (TempFile :> ConsoleEncode(stdin.s)) @@ f
    ELSE f

\* Mutant: an explicit mapping is used whenever one is given, empty or not.
EnvIsGiven_NotNone(env) == ~env.isNone

\* ProcessConfiguration._get_initial_env: `if env:`.
EnvIsGiven(env) == ~env.isNone /\ DOMAIN env.d # {}

\* ProcessConfiguration._get_initial_env, with os.environ being inherited.
GetInitialEnv(env, extra, inherited) ==
    IF EnvIsGiven(env)
    THEN EnvDict([k \in {SystemEncode(n) : n \in DOMAIN env.d} |->
                    SystemEncode(env.d[CHOOSE n \in DOMAIN env.d : SystemEncode(n) = k])])
    ELSE IF DOMAIN extra # {} THEN EnvDict(inherited)
    ELSE EnvNone

\* ProcessConfiguration._add_to_env raises for such a name.
Unsupported(key) == key.head # "env:"

\* ProcessConfiguration._add_to_env, when no name is unsupported.
AddToEnv(d, extra) ==
    LET set == {SystemEncode(key.rest) : key \in DOMAIN extra}
    IN  [k \in DOMAIN d \cup set |->
            IF k \in set
            THEN SystemEncode(extra[CHOOSE key \in DOMAIN extra : SystemEncode(key.rest) = k])
            ELSE d[k]]

\* ProcessConfiguration._construct_env where WINDOWS is false.
ConstructEnv(env, extra, inherited) ==
    IF GetInitialEnv(env, extra, inherited).isNone THEN EnvNone
    ELSE EnvDict(AddToEnv(GetInitialEnv(env, extra, inherited).d, extra))

\* ProcessConfiguration._construct_env raises RuntimeError.
EnvFails(env, extra) ==
    /\ ~GetInitialEnv(env, extra, OsEnviron).isNone
    /\ \E key \in DOMAIN extra : Unsupported(key)

\* Mutant: the extra keyword arguments are never looked at.
ConfigurationError_IgnoresExtra(args) ==
    IF OpenFails(args.stdout) THEN "OSError"
    ELSE IF StderrIsOwn(args.stderr, args.stdout) /\ OpenFails(args.stderr) THEN "OSError"
    ELSE ""

\* What ProcessConfiguration.__init__ raises, "" when it returns: the
\* streams are resolved in the order stdout, stderr, stdin, then the
\* environment is constructed.
ConfigurationError(args) ==
    IF OpenFails(args.stdout) THEN "OSError"
    ELSE IF StderrIsOwn(args.stderr, args.stdout) /\ OpenFails(args.stderr) THEN "OSError"
    ELSE IF EnvFails(args.env, args.extra) THEN "RuntimeError"
    ELSE ""

\* The file system when ProcessConfiguration.__init__ returns or raises.
AfterConfiguration(f, args) ==
    IF ConfigurationError(args) = "OSError" THEN AfterOpening(f, args)
    ELSE AfterStdin(AfterOpening(f, args), args.stdin)

\* ProcessConfiguration.__init__ in the file system f, when it returns.
ProcessConfiguration(args, f, inherited) ==
    LET stdout_stream == NewStream(args.stdout, 1)
    IN  [stdout |-> args.stdout, stderr |-> args.stderr,
         stdout_stream |-> stdout_stream,
         stderr_stream |-> GetStderr(args.stderr, args.stdout, stdout_stream, 2),
         stdin_stream |-> GetStdin(args.stdin, AfterOpening(f, args), 5),
         env |-> ConstructEnv(args.env, args.extra, inherited)]

\* The environment the child of subprocess.Popen(..., env=env) runs in.
ChildEnvironment(env, inherited) == IF env.isNone THEN inherited ELSE env.d

\* The stream objects that the ExecutionResult of process p holds: the
\* streams of its Popen object (self._process) and self._custom_streams,
\* where a stdin object that was passed in is the caller's object.
Held(p, c, args) ==
    LET process == NewPopen(c, <<>>, <<>>)
        custom == {s \in {c.stdout_stream, c.stderr_stream, c.stdin_stream} :
                        IsCustomStream(s)}
        passed == {s \in {c.stdin_stream} : args.stdin.type = "object"}
    IN  {ObjectOf(p, s) :
            s \in ({process.stdin, process.stdout, process.stderr} \ {NoStream})
                        \cup (custom \ passed)}
            \cup (custom \cap passed)

\* The object given as stdin exists: it is the stdout of a started process.
StdinExists(args) ==
    args.stdin.type = "object" =>
        \E p \in DOMAIN held : args.stdin.obj \in held[p]

\* start_process with the configuration arguments args: the configuration
\* is built first and may raise; conf holds the configuration that was built.
StartConfigured(args, alias) ==
    /\ pc = "idle"
    /\ NextPid <= MaxSpawn
    /\ StdinExists(args)
    /\ UNCHANGED <<platform, environ, popen, execResult, closed>>
    /\ files' = AfterConfiguration(files, args)
    /\ IF ConfigurationError(args) # ""
       THEN /\ conf' = <<>>
            /\ held' = held
            /\ ret' = Ret("start_process", <<args>>, "error", <<>>, FALSE)
            /\ pc' = "done"
            /\ ctx' = [CtxIdle EXCEPT !.op = "start_process", !.saved = current]
            /\ outcome' = Raised(ConfigurationError(args))
            /\ UNCHANGED <<connections, aliases, current, results, os, elapsed, sent>>
       ELSE /\ conf' = <<ProcessConfiguration(args, files, environ)>>
            /\ held' = held @@ (NextPid :>
                            Held(NextPid, ProcessConfiguration(args, files, environ), args))
            /\ ret' = Ret("start_process", <<args>>, "started", <<>>, FALSE)
            /\ Start(alias)

\* run_process with the configuration arguments args.
RunConfigured(args, alias, timeout, on_timeout) ==
    /\ pc = "idle"
    /\ NextPid <= MaxSpawn
    /\ StdinExists(args)
    /\ UNCHANGED <<platform, environ, popen, execResult, closed>>
    /\ files' = AfterConfiguration(files, args)
    /\ IF ConfigurationError(args) # ""
       THEN /\ conf' = <<>>
            /\ held' = held
            /\ ret' = Ret("run_process", <<args>>, "error", <<>>, FALSE)
            /\ Finish([CtxIdle EXCEPT !.op = "run_process", !.on_timeout = on_timeout,
                                      !.saved = current],
                      Raised(ConfigurationError(args)))
            /\ UNCHANGED <<connections, aliases, results, os, sent>>
       ELSE /\ conf' = <<ProcessConfiguration(args, files, environ)>>
            /\ held' = held @@ (NextPid :>
                            Held(NextPid, ProcessConfiguration(args, files, environ), args))
            /\ ret' = Ret("run_process", <<args>>, "started", <<>>, FALSE)
            /\ Run(alias, timeout, on_timeout)

\* The library with configured starts: nothing is configured yet.
InitConfig ==
    /\ LibraryInit
    /\ platform = "posix"
    /\ environ = OsEnviron
    /\ held = EmptyMap
    /\ conf = <<>>
    /\ popen = NoValue
    /\ execResult = NoValue
    /\ closed = {}
    /\ files = ConfigFiles
    /\ ret = NoRet

NextConfig ==
    \/ \E args \in ConfigInputs, alias \in AliasNames \cup {NoAlias} :
         StartConfigured(args, alias)
    \/ \E args \in ConfigInputs, alias \in AliasNames \cup {NoAlias} :
         RunConfigured(args, alias, TimeoutNone, S_terminate)
    \/ Return
    \/ WaitDone
    \/ \E p \in 1 .. MaxSpawn : ChildExits(p)

SpecConfig == InitConfig /\ [][NextConfig]_vars


\* ============================== a configured process, its streams, its result

\* The stdin values the process is started with.
StreamStdinInputs ==
    {StdinNone, StdinStr(S_PIPE), StdinStr(S_in), StdinStr(S_hi), StdinObject(OtherStdout)}

\* What the process writes to its stdout.
StreamStdoutWritten == {<<>>, <<"a", LF>>}

\* The working directory before the process is configured.
StreamFiles == NewFiles @@ ("in" :> <<"a">>)

\* The caller closes process.stdin, the write end of the stdin pipe.
CloseStdin ==
    /\ IsOpen(popen.stdin, closed)
    /\ closed' = closed \cup {popen.stdin.id}
    /\ UNCHANGED <<lifecycle, platform, environ, held, conf, popen, execResult, files, ret>>

\* start_process has configured stdout, stderr and stdin, started the
\* process and created its result.
InitStreams ==
    /\ LibraryInit
    /\ platform = "posix"
    /\ environ = OsEnviron
    /\ held = EmptyMap
    /\ \E stdout \in StdoutInputs, stderr \in StderrInputs, stdin \in StreamStdinInputs,
          out \in StreamStdoutWritten, err \in StderrWritten :
        \E args \in {[DefaultArgs EXCEPT !.stdout = stdout, !.stderr = stderr,
                                         !.stdin = stdin]} :
            /\ conf = ProcessConfiguration(args, StreamFiles, OsEnviron)
            /\ popen = NewPopen(ProcessConfiguration(args, StreamFiles, OsEnviron), out, err)
            /\ execResult =
                    NewExecutionResult(
                        ProcessConfiguration(args, StreamFiles, OsEnviron).stdout_stream,
                        ProcessConfiguration(args, StreamFiles, OsEnviron).stderr_stream,
                        ProcessConfiguration(args, StreamFiles, OsEnviron).stdin_stream)
            /\ files = AfterConfiguration(StreamFiles, args)
    /\ closed = {}
    /\ ret = NoRet

NextStreams ==
    \/ PopenExits
    \/ CloseStdin
    \/ WaitResult
    \/ StdoutAccess
    \/ StderrAccess
    \/ \E includes \in {Selected({}), Selected({2, 3})} : GetResult(includes)

SpecStreams == InitStreams /\ [][NextStreams]_vars


\* ==================================================== command line helpers

\* ---------------------------------------------------------------- inputs

\* The characters of an argument: a letter, a space, a double quote and a
\* backslash.
SP == "space"
DQ == "quote"
BS == "backslash"
ArgChars == {"a", SP, DQ, BS}

MaxArgs == 2
Arguments == UNION {[1 .. k -> ArgChars] : k \in 0 .. MaxLen}
ArgumentLists == UNION {[1 .. k -> Arguments] : k \in 0 .. MaxArgs}

\* ----------------------------------------------------- join_command_line

\* n times the character c
Repeat(c, n) == [i \in 1 .. n |-> c]

\* subprocess.list2cmdline, the loop over the characters of one argument and
\* what follows it: bs_buf holds bs backslashes.
RECURSIVE QuoteChars(_, _, _)
QuoteChars(arg, bs, needquote) ==
    IF arg = <<>>
    THEN Repeat(BS, bs) \o (IF needquote THEN Repeat(BS, bs) \o <<DQ>> ELSE <<>>)
    ELSE IF Head(arg) = BS THEN QuoteChars(Tail(arg), bs + 1, needquote)
    ELSE IF Head(arg) = DQ
    THEN Repeat(BS, 2 * bs) \o <<BS, DQ>> \o QuoteChars(Tail(arg), 0, needquote)
    ELSE Repeat(BS, bs) \o <<Head(arg)>> \o QuoteChars(Tail(arg), 0, needquote)

\* subprocess.list2cmdline for one argument.
QuoteArg(arg) ==
    LET needquote == arg = <<>> \/ \E i \in DOMAIN arg : arg[i] = SP
    IN  (IF needquote THEN <<DQ>> ELSE <<>>) \o QuoteChars(arg, 0, needquote)

\* Process.join_command_line: subprocess.list2cmdline(args).
RECURSIVE JoinCommandLine(_)
JoinCommandLine(args) ==
    IF args = <<>> THEN <<>>
    ELSE IF Len(args) = 1 THEN QuoteArg(args[1])
    ELSE QuoteArg(args[1]) \o <<SP>> \o JoinCommandLine(Tail(args))

\* ---------------------------------------------------- split_command_line

\* The outcome of splitting: a list, or ValueError.
SplitTo(list) == [ok |-> TRUE, list |-> list]
SplitError == [ok |-> FALSE, list |-> <<>>]

\* Mutant: the backslash is an escape character whatever `escaping` is.
Escapes_Always(c, escaping) == c = BS

\* split_command_line: the backslash is an escape character only when
\* `escaping` is true.
Escapes(c, escaping) == escaping /\ c = BS

\* robot.utils.cmdline2list: a shlex-style scan.  state is "space" between
\* arguments, "word" inside one, "quote" inside quotes, and "escape word" /
\* "escape quote" right after an escaping backslash; token is the argument
\* collected so far and out the arguments completed.
RECURSIVE Scan(_, _, _, _, _)
Scan(line, state, token, out, escaping) ==
    IF line = <<>>
    THEN CASE state = "space" -> SplitTo(out)
           [] state = "word" -> SplitTo(Append(out, token))
           [] OTHER -> SplitError
    ELSE LET c == Head(line)
             rest == Tail(line)
         IN  CASE state = "space" ->
                    IF c = SP THEN Scan(rest, "space", <<>>, out, escaping)
                    ELSE IF c = DQ THEN Scan(rest, "quote", <<>>, out, escaping)
                    ELSE IF Escapes(c, escaping)
                    THEN Scan(rest, "escape word", <<>>, out, escaping)
                    ELSE Scan(rest, "word", <<c>>, out, escaping)
               [] state = "word" ->
                    IF c = SP THEN Scan(rest, "space", <<>>, Append(out, token), escaping)
                    ELSE IF c = DQ THEN Scan(rest, "quote", token, out, escaping)
                    ELSE IF Escapes(c, escaping)
                    THEN Scan(rest, "escape word", token, out, escaping)
                    ELSE Scan(rest, "word", Append(token, c), out, escaping)
               [] state = "quote" ->
                    IF c = DQ THEN Scan(rest, "word", token, out, escaping)
                    ELSE IF Escapes(c, escaping)
                    THEN Scan(rest, "escape quote", token, out, escaping)
                    ELSE Scan(rest, "quote", Append(token, c), out, escaping)
               [] state = "escape word" ->
                    Scan(rest, "word", Append(token, c), out, escaping)
               [] OTHER ->
                    IF c \in {DQ, BS}
                    THEN Scan(rest, "quote", Append(token, c), out, escaping)
                    ELSE Scan(rest, "quote", token \o <<BS, c>>, out, escaping)

\* Process.split_command_line: cmdline2list(args, escaping=escaping).
SplitCommandLine(line, escaping) == Scan(line, "space", <<>>, <<>>, escaping)

\* ------------------------------------------------------------------ calls

\* Join Command Line is called with the arguments that were drawn.
JoinCall ==
    /\ UNCHANGED <<lifecycle, platform, environ, held, conf, popen, execResult, closed, files>>
    /\ ret.op = ""
    /\ ret' = Ret("join_command_line", ret.args, "str",
                  <<JoinCommandLine(ret.args[1])>>, FALSE)

\* Split Command Line is called with the string that Join Command Line
\* returned; args keeps the arguments that were joined, then the call's own.
SplitCall(escaping) ==
    /\ UNCHANGED <<lifecycle, platform, environ, held, conf, popen, execResult, closed, files>>
    /\ ret.op = "join_command_line"
    /\ LET line == ret.items[1]
           split == SplitCommandLine(line, escaping)
       IN  ret' = Ret("split_command_line", <<ret.args[1], line, escaping>>,
                      IF split.ok THEN "list" ELSE "ValueError", split.list, FALSE)

\* The library with some arguments at hand for its command line helpers.
InitCommandLine ==
    /\ LibraryInit
    /\ platform = "posix"
    /\ environ = OsEnviron
    /\ held = EmptyMap
    /\ conf = NoValue
    /\ popen = NoValue
    /\ execResult = NoValue
    /\ closed = {}
    /\ files = EmptyMap
    /\ \E args \in ArgumentLists : ret = [NoRet EXCEPT !.args = <<args>>]

NextCommandLine ==
    \/ JoinCall
    \/ \E escaping \in BOOLEAN : SplitCall(escaping)

SpecCommandLine == InitCommandLine /\ [][NextCommandLine]_vars


\* ================================================================ claims

\* wait_for_process (directly or from run_process) has come back after its
\* timeout elapsed with the process still running.
TimedOutWaitDone ==
    /\ pc = "done"
    /\ ctx.op \in {"wait_for_process", "run_process"}
    /\ ctx.timedOut

\* C1: when wait_for_process is given a positive timeout, the process has not
\* exited when it elapses and on_timeout is "continue", the call returns None,
\* has sent no signal, the process is still running and its result is not
\* finalized (rc is still unset, nothing drained, streams not closed).
C1_ContinueLeavesProcessRunning ==
    (TimedOutWaitDone /\ ctx.on_timeout = S_continue) =>
        /\ ctx.timeout > 0
        /\ outcome = Returned("none", 0)
        /\ sent = <<>>
        /\ Running(ctx.p)
        /\ results[ctx.p] = NewResult

C1_Witness ==
    /\ TimedOutWaitDone
    /\ ctx.op = "wait_for_process"
    /\ ctx.on_timeout = S_continue
    /\ outcome.kind = "none"
    /\ Running(ctx.p)


\* C2: when wait_for_process times out on a process that is still running,
\* on_timeout="terminate" and on_timeout="kill" never return None; the first
\* signal sent is the graceful SIGTERM for "terminate" and SIGKILL for "kill"
\* (which never sends SIGTERM); and when the call returns, it returns the
\* result of that process with rc set, and the process is stopped.
C2_TerminateAndKillReturnResult ==
    (TimedOutWaitDone /\ ctx.on_timeout \in {S_terminate, S_kill}) =>
        /\ outcome.kind \in {"result", "error"}
        /\ sent # <<>>
        /\ sent[1] = [p |-> ctx.p,
                      sig |-> IF ctx.on_timeout = S_terminate THEN "TERM" ELSE "KILL",
                      from |-> "terminate_process"]
        /\ ctx.on_timeout = S_kill => \A i \in DOMAIN sent : sent[i].sig = "KILL"
        /\ outcome.kind = "result" =>
            /\ outcome.p = ctx.p
            /\ results[ctx.p].rc # RcNone
            /\ ~Running(ctx.p)

C2_Witness ==
    /\ TimedOutWaitDone
    /\ ctx.op = "wait_for_process"
    /\ ctx.on_timeout = S_kill
    /\ outcome = Returned("result", ctx.p)
    /\ results[ctx.p].rc = "-9"

\* The state a keyword leaves behind, apart from its own return value.
libraryState == <<connections, aliases, current, results, os>>

\* C3: get_process_result on a handle whose result has rc unset raises and
\* changes no state; once wait_for_process or terminate_process has returned
\* the result of a process, get_process_result succeeds for every handle that
\* resolves to that process and returns that result.
C3_GetResultNeedsFinishedProcess ==
    [][ /\ (pc = "idle" /\ ctx'.op = "get_process_result"
                /\ HandleError(ctx'.handle) = ""
                /\ results[HandleProcess(ctx'.handle)].rc = RcNone) =>
            /\ outcome' =
                Raised("Getting results of unfinished processes is not supported.")
            /\ UNCHANGED libraryState
        /\ (pc' = "done" /\ ctx'.op \in {"wait_for_process", "terminate_process"}
                /\ outcome'.kind = "result") =>
            \A h \in Handles :
                (HandleError(h)' = "" /\ HandleProcess(h)' = outcome'.p) =>
                    GetProcessResultOutcome(h)' = Returned("result", outcome'.p)
      ]_vars

C3_Witness ==
    /\ pc = "done"
    /\ ctx.op = "get_process_result"
    /\ outcome = Raised("Getting results of unfinished processes is not supported.")
    /\ Running(HandleProcess(ctx.handle))


\* The signals the current keyword call has sent to process p, in order.
SentTo(p) == SelectSeq(sent, LAMBDA e : e.p = p)

\* This step sends one more signal.
Sends == Len(sent') = Len(sent) + 1
NewSignal == sent'[Len(sent')]

\* C4 (as claimed): if TimeoutExceeded arrives while _wait is draining, the
\* process has been killed (SIGKILL sent, process stopped) when the keyword
\* ends, the keyword ends by raising TimeoutExceeded itself, and the call has
\* not finalized or returned a result.
C4_CancellationReachesCaller ==
    [][ (pc # "done" /\ pc' = "done" /\ ctx'.cancelled
            /\ \E i \in DOMAIN sent' : sent'[i].from = "_wait") =>
            /\ outcome' = Raised("TimeoutExceeded")
            /\ ~Running(ctx.p)'
            /\ results' = results
      ]_vars

\* C5 (as claimed): terminate_process with kill=false sends SIGTERM first, and
\* sends SIGKILL only when the process is still running after the
\* TERMINATE_TIMEOUT grace period; with kill=true SIGTERM is never sent and
\* SIGKILL is sent at once.
C5_KillOnlyAfterGrace ==
    [][ /\ (Sends /\ NewSignal.from = "terminate_process") =>
            /\ NewSignal.sig = IF ctx'.kill THEN "KILL" ELSE "TERM"
            /\ SentTo(NewSignal.p) = <<>>
        /\ (Sends /\ NewSignal.sig = "KILL" /\ SentTo(NewSignal.p) # <<>>
                /\ ~ctx.kill) =>
            /\ pc = "terminate_wait"
            /\ elapsed >= TERMINATE_TIMEOUT
            /\ Running(ctx.p)
            /\ SentTo(ctx.p) = <<[p |-> ctx.p, sig |-> "TERM",
                                  from |-> "terminate_process"]>>
        /\ (Sends /\ ctx'.kill) => NewSignal.sig = "KILL"
        /\ \A h \in Handles :
            (TerminateProcess(h, TRUE) /\ HandleError(h) = "") =>
                sent' = <<[p |-> HandleProcess(h), sig |-> "KILL",
                           from |-> "terminate_process"]>>
      ]_vars

\* C5 (amended): as above, except that SIGKILL is also sent when a Robot
\* timeout interrupts the final drain of _wait.
C5_KillOnlyAfterGraceOrCancellation ==
    [][ /\ (Sends /\ NewSignal.from = "terminate_process") =>
            /\ NewSignal.sig = IF ctx'.kill THEN "KILL" ELSE "TERM"
            /\ SentTo(NewSignal.p) = <<>>
        /\ (Sends /\ NewSignal.sig = "KILL" /\ SentTo(NewSignal.p) # <<>>
                /\ ~ctx.kill) =>
            \/ /\ pc = "terminate_wait"
               /\ elapsed >= TERMINATE_TIMEOUT
               /\ Running(ctx.p)
               /\ NewSignal.from = "_terminate"
               /\ SentTo(ctx.p) = <<[p |-> ctx.p, sig |-> "TERM",
                                     from |-> "terminate_process"]>>
            \/ /\ pc = "drain"
               /\ NewSignal.from = "_wait"
               /\ ~ctx.cancelled /\ ctx'.cancelled
        /\ (Sends /\ ctx'.kill) => NewSignal.sig = "KILL"
        /\ \A h \in Handles :
            (TerminateProcess(h, TRUE) /\ HandleError(h) = "") =>
                sent' = <<[p |-> HandleProcess(h), sig |-> "KILL",
                           from |-> "terminate_process"]>>
      ]_vars

\* The grace period ran out and _terminate escalated to SIGKILL.
C5_Witness ==
    /\ ctx.op = "terminate_process"
    /\ ~ctx.kill
    /\ pc = "kill_wait"
    /\ Len(sent) = 2
    /\ sent[1].sig = "TERM" /\ sent[2] = [p |-> ctx.p, sig |-> "KILL", from |-> "_terminate"]

\* C6: when terminate_all_processes returns, no process that was registered is
\* running, the registry is empty, there is no active process, and every
\* handle (None, any index, any alias, any former process object) fails to
\* resolve.
C6_TerminateAllEmptiesRegistry ==
    [][ (pc = "all_loop" /\ pc' = "done" /\ outcome'.kind = "none") =>
            /\ \A i \in 1 .. Len(connections) : ~os'[connections[i]].alive
            /\ connections' = <<>>
            /\ aliases' = EmptyMap
            /\ current' = NoConnection
            /\ \A h \in Handles : HandleError(h)' # ""
      ]_vars

\* terminate_all_processes returned after signalling two processes.
C6_Witness ==
    /\ pc = "done"
    /\ ctx.op = "terminate_all_processes"
    /\ outcome.kind = "none"
    /\ \E i, j \in DOMAIN sent : sent[i].p # sent[j].p


\* C7: start_process with an alias that is already registered raises a
\* configuration error; the registry is unchanged, the alias still resolves to
\* the process that registered it first, and that process and its result are
\* untouched.
C7_DuplicateAliasRejected ==
    [][ \A alias \in AliasNames :
            (StartProcess(alias) /\ alias \in DOMAIN aliases) =>
                LET first == connections[aliases[alias]]
                IN  /\ outcome' = Raised("ConfigurationError")
                    /\ UNCHANGED <<connections, aliases, current>>
                    /\ HandleError(HandleAlias(alias))' = ""
                    /\ HandleProcess(HandleAlias(alias))' = first
                    /\ os'[first] = os[first]
                    /\ results'[first] = results[first]
      ]_vars

C7_Witness ==
    /\ pc = "done"
    /\ ctx.op = "start_process"
    /\ outcome = Raised("ConfigurationError")
    /\ "a" \in DOMAIN aliases
    /\ Running(HandleProcess(HandleAlias("a")))

\* C8: every successful start_process spawns a new process, registers it as
\* the next entry of the registry, makes it the active process and returns
\* it; the k-th process registered since the last reset resolves by the
\* index k, from its registration until the next reset.
C8_StartRegistersActive ==
    [][ /\ (pc = "idle" /\ ctx'.op = "start_process" /\ outcome'.kind = "handle") =>
            \E p \in {ctx'.p}, k \in {Len(connections) + 1} :
                /\ p \notin DOMAIN os /\ os'[p].alive
                /\ connections' = Append(connections, p)
                /\ current' = p
                /\ outcome'.p = p
                /\ HandleError(HandleIndex(k))' = ""
                /\ HandleProcess(HandleIndex(k))' = p
                /\ HandleError(HandleNone)' = ""
                /\ HandleProcess(HandleNone)' = p
        /\ \A k \in 1 .. Len(connections) :
            \/ connections' = <<>>
            \/ /\ HandleError(HandleIndex(k))' = ""
               /\ HandleProcess(HandleIndex(k))' = connections[k]
      ]_vars

\* The second process spawned was started after a reset and is entry 1.
C8_Witness ==
    /\ pc = "done"
    /\ ctx.op = "start_process"
    /\ outcome = Returned("handle", 2)
    /\ connections = <<2>>
    /\ current = 2

\* C9: run_process leaves the active process as it was before the call,
\* whether it returns a result, returns None or raises.
C9_RunProcessKeepsActive ==
    (pc = "done" /\ ctx.op = "run_process") => current = ctx.saved

\* run_process left its process running (on_timeout=continue) while there was
\* no active process before the call, and there is none after it.
C9_Witness ==
    /\ pc = "done"
    /\ ctx.op = "run_process"
    /\ outcome.kind = "none"
    /\ IsRegistered(ctx.p)
    /\ ctx.saved = NoConnection
    /\ current = NoConnection

\* A step that calls a keyword taking a process handle, with the handle h.
CallsWithHandle(h) ==
    /\ pc = "idle"
    /\ \/ ctx'.op = "is_process_running" /\ IsProcessRunning(h)
       \/ ctx'.op = "get_process_result" /\ GetProcessResult(h)
       \/ ctx'.op = "get_process_id" /\ GetProcessId(h)
       \/ ctx'.op = "get_process_object" /\ GetProcessObject(h)
       \/ ctx'.op = "switch_process" /\ SwitchProcess(h)
       \/ /\ ctx'.op = "send_signal_to_process"
          /\ \E signal \in SignalInputs, group \in BOOLEAN :
                SendSignalToProcess(signal, h, group)
       \/ /\ ctx'.op = "terminate_process"
          /\ \E kill \in BOOLEAN : TerminateProcess(h, kill)
       \/ /\ ctx'.op = "wait_for_process"
          /\ \E timeout \in TimeoutInputs, on_timeout \in OnTimeoutInputs :
                WaitForProcess(h, timeout, on_timeout)

\* The call stopped at the lookup with the error msg and changed nothing.
LookupFailed(msg) ==
    /\ pc' = "done"
    /\ outcome' = Raised(msg)
    /\ UNCHANGED libraryState

\* The handle is not given and there is an active process.
ResolvesToActive(h) == h = HandleNone /\ current # NoConnection

\* The handle is an index or an alias that the registry does not hold.
NotInRegistry(h) ==
    \/ h.kind = "index" /\ h.n \notin 1 .. Len(connections)
    \/ h.kind = "alias" /\ h.a \notin DOMAIN aliases

\* The handle is not given and the registry is empty.
NothingRegistered(h) == h = HandleNone /\ connections = <<>>

\* C10: a keyword called without a handle operates on the active process; a
\* handle that is an index or alias not in the registry raises the lookup
\* error; with an empty registry a call without a handle raises the "No
\* active process." error.
C10_HandleResolution ==
    [][ \A h \in Handles \cap {ctx'.handle} :
            /\ (ResolvesToActive(h) /\ CallsWithHandle(h)) =>
                    /\ ctx'.p = current
                    /\ ~LookupFailed("No active process.")
                    /\ ~LookupFailed("Non-existing index or alias.")
            /\ (NotInRegistry(h) /\ CallsWithHandle(h)) =>
                    LookupFailed("Non-existing index or alias.")
            /\ (NothingRegistered(h) /\ CallsWithHandle(h)) =>
                    LookupFailed("No active process.")
      ]_vars

\* A call without a handle was served by the active process while another
\* process is registered too.
C10_Witness ==
    /\ pc = "done"
    /\ ctx.op = "is_process_running"
    /\ ctx.handle = HandleNone
    /\ outcome.kind = "true"
    /\ ctx.p = current
    /\ Len(connections) = 2
    /\ current = connections[1]

\* C11: switch_process with a handle that resolves makes that process the
\* active one and changes nothing else (registry contents, results and the
\* processes themselves); with a handle that does not resolve it raises the
\* lookup error and the active process and the registry are unchanged.
C11_SwitchChangesOnlyActive ==
    [][ \A h \in Handles :
            (pc = "idle" /\ ctx'.op = "switch_process" /\ SwitchProcess(h)) =>
                /\ UNCHANGED <<connections, aliases, results, os, sent>>
                /\ pc' = "done"
                /\ IF HandleError(h) = ""
                   THEN /\ current' = HandleProcess(h)
                        /\ outcome' = Returned("none", 0)
                   ELSE /\ current' = current
                        /\ outcome' = Raised(HandleError(h))
      ]_vars

\* switch_process made the first of two registered processes active again.
C11_Witness ==
    /\ pc = "done"
    /\ ctx.op = "switch_process"
    /\ outcome = Returned("none", 0)
    /\ Len(connections) = 2
    /\ ctx.saved = connections[2]
    /\ current = connections[1]

\* C12: a step of any operation other than terminate_all_processes keeps the
\* registry's entries: the registered processes stay in place, new ones are
\* only appended, and every index, alias or process object that resolved
\* before the step resolves to the same process after it, whether that
\* process has finished or is no longer the active one.
C12_OnlyTerminateAllRemoves ==
    [][ ctx.op # "terminate_all_processes" =>
            /\ Len(connections) <= Len(connections')
            /\ SubSeq(connections', 1, Len(connections)) = connections
            /\ \A h \in Handles \ {HandleNone} :
                HandleError(h) = "" =>
                    /\ HandleError(h)' = ""
                    /\ HandleProcess(h)' = HandleProcess(h)
      ]_vars

\* The first process has finished, its result is finalized, the second one is
\* active, and the first still resolves by index, alias and process object.
C12_Witness ==
    /\ pc = "idle"
    /\ Len(connections) = 2
    /\ current = connections[2]
    /\ ~Running(connections[1])
    /\ results[connections[1]].rc # RcNone
    /\ HandleProcess(HandleIndex(1)) = connections[1]
    /\ HandleError(HandleAlias("a")) = ""
    /\ HandleProcess(HandleAlias("a")) = connections[1]
    /\ HandleError(HandleProc(connections[1])) = ""

\* The timeout values the claim calls "wait indefinitely".
WaitsIndefinitely(t) ==
    \/ t = TimeoutNone
    \/ t.tag = "str" /\ t.s \in {S_none, S_NONE, S_NoNe}
    \/ t.tag = "num" /\ t.n <= 0

\* C13: _get_timeout maps None, "NONE" in any letter case, zero and negative
\* numbers to a non-positive timeout, and wait_for_process called with such a
\* value goes straight to _wait; a wait_for_process call with a non-positive
\* timeout never polls with a timeout, never consults on_timeout, sends no
\* signal unless it is cancelled, and when it returns it returns the result
\* of a process that has exited.
C13_NoTimeoutWaitsForExit ==
    [][ /\ \A t \in TimeoutInputs : WaitsIndefinitely(t) => GetTimeout(t) <= 0
        /\ (pc = "idle" /\ ctx'.op = "wait_for_process" /\ ctx'.p # 0) =>
            /\ pc' = "drain" <=> ctx'.timeout <= 0
            /\ \A t \in TimeoutInputs :
                (WaitsIndefinitely(t)
                    /\ WaitForProcess(HandleProc(ctx'.p), t, S_terminate)) =>
                        pc' = "drain"
        /\ (ctx'.op = "wait_for_process" /\ ctx'.p # 0 /\ ctx'.timeout <= 0) =>
                /\ pc' # "wait_poll"
                /\ ~ctx'.timedOut
                /\ ctx'.cancelled \/ sent' = <<>>
                /\ (pc' = "done" /\ outcome'.kind # "error") =>
                        /\ outcome' = Returned("result", ctx'.p)
                        /\ ~os'[ctx'.p].alive
                        /\ results'[ctx'.p].rc # RcNone
      ]_vars

\* wait_for_process without a timeout is blocked on a running process that
\* nobody has signalled.
C13_Witness ==
    /\ pc = "drain"
    /\ ctx.op = "wait_for_process"
    /\ ctx.timeout <= 0
    /\ Running(ctx.p)
    /\ os[ctx.p].pending = "none"
    /\ sent = <<>>

\* The step in which terminate_process's `except OSError` handler decides,
\* after its _process_is_stopped(process, KILL_TIMEOUT) call has returned.
OsErrorDecided == pc = "oserror_wait" /\ pc' # "oserror_wait" /\ ~ctx'.cancelled

\* C14: when sending the terminate or kill signal raised OSError,
\* terminate_process goes on to _wait if the process has stopped within the
\* KILL_TIMEOUT wait, and the result it then returns is finalized; if the
\* process is still running when that wait is over, which is only after more
\* than KILL_TIMEOUT, the OSError is raised and no result is changed.
C14_SignalErrorTolerated ==
    [][ /\ OsErrorDecided =>
            IF Running(ctx.p)
            THEN /\ elapsed > KILL_TIMEOUT
                 /\ elapsed <= KILL_TIMEOUT + TimeStep
                 /\ pc' = "done"
                 /\ outcome' = Raised("OSError")
                 /\ results' = results
            ELSE /\ pc' = "drain"
                 /\ elapsed <= KILL_TIMEOUT + TimeStep
                 /\ outcome' = NoOutcome
        /\ (pc = "drain" /\ pc' # "drain" /\ ~ctx'.cancelled) =>
            /\ ~Running(ctx.p)
            /\ results'[ctx.p] = Finalized(results[ctx.p], os[ctx.p].returncode)
            /\ results'[ctx.p].rc # RcNone
            /\ ctx.op # "terminate_all_processes" =>
                    pc' = "done" /\ outcome' = Returned("result", ctx.p)
      ]_vars

\* Sending SIGTERM raised OSError, and during the KILL_TIMEOUT wait of the
\* handler the process has stopped by itself.
C14_Witness ==
    /\ pc = "oserror_wait"
    /\ ctx.op = "terminate_process"
    /\ ~ctx.kill
    /\ elapsed > 0
    /\ ~Running(ctx.p)
    /\ os[ctx.p].returncode = "0"
    /\ results[ctx.p].rc = RcNone

\* What the stdout and stderr accessors of the result would return now.
ObservedStdout == AfterStdout(execResult, closed)._stdout
ObservedStderr == AfterStderr(execResult, closed)._stderr

\* A call has just been made on the result that was already finalized.
LaterCall(ops) ==
    /\ execResult.rc # RcNone
    /\ ret'.mark # ret.mark
    /\ ret'.op \in ops

\* C15: once a result has been finalized, no later wait_for_process,
\* terminate_process (both end in _wait) or get_process_result on its handle
\* changes the rc, the stdout, the stderr or the closed streams of the result.
\* The code does not keep this: every _wait assigns stdout and stderr again,
\* and for an output redirected to a file it assigns None, which drops the
\* text read before, so that the next access reads the file as it is then.
C15_ResultImmutableAfterFinalization ==
    [][ LaterCall({"_wait", "get_process_result"}) =>
            /\ execResult'.rc = execResult.rc
            /\ ObservedStdout' = ObservedStdout
            /\ ObservedStderr' = ObservedStderr
            /\ closed' = closed
      ]_vars

\* The call just made was a read of the given accessor of the finalized result.
Accessed(op) == ret'.mark # ret.mark /\ ret'.op = op

\* C16: on a finalized result the stdout (or stderr) accessor returns a string;
\* the first access reads the bound destination, and every later access
\* returns the stored string without reading again, whatever has happened to
\* the destination since, as long as no _wait has run in between.
C16_RepeatedAccessSameString ==
    [][ /\ Accessed("stdout") =>
            /\ ~ret'.items[1].isNone
            /\ ret'.read <=> execResult._stdout.isNone
            /\ ret'.read =>
                    ret'.items = <<ReadStream(execResult.stdout_path, popen.stdout, closed)>>
            /\ ~ret'.read => ret'.items = <<execResult._stdout>>
            /\ (ret.op = "stdout") => (~ret'.read /\ ret'.items = ret.items)
        /\ Accessed("stderr") =>
            /\ ~ret'.items[1].isNone
            /\ ret'.read <=> execResult._stderr.isNone
            /\ ret'.read =>
                    ret'.items = <<ReadStream(execResult.stderr_path, popen.stderr, closed)>>
            /\ ~ret'.read => ret'.items = <<execResult._stderr>>
            /\ (ret.op = "stderr") => (~ret'.read /\ ret'.items = ret.items)
        /\ ~Accessed("_wait") =>
            /\ ~execResult._stdout.isNone => execResult'._stdout = execResult._stdout
            /\ ~execResult._stderr.isNone => execResult'._stderr = execResult._stderr
      ]_vars

\* A second access in a row has returned the stored string although the file
\* it was read from holds something else by now.
C16_Witness ==
    /\ ret.op = "stdout"
    /\ ~ret.read
    /\ execResult.stdout_path \notin {"", DevNull}
    /\ ret.items = <<execResult._stdout>>
    /\ FormatOutput(Str(files[execResult.stdout_path])) # execResult._stdout

\* The positions of raw that are not a CR standing directly before an LF.
KeptPositions(raw) ==
    {i \in 1 .. Len(raw) : ~(raw[i] = CR /\ i < Len(raw) /\ raw[i + 1] = LF)}

\* raw with each CR-LF replaced by LF.
CrLfToLf(raw) ==
    LET keep == KeptPositions(raw)
        at == [k \in 1 .. Cardinality(keep) |->
                CHOOSE i \in keep : Cardinality({j \in keep : j < i}) = k - 1]
    IN  [k \in 1 .. Cardinality(keep) |-> raw[at[k]]]

\* raw with each CR-LF replaced by LF and then one trailing LF removed.
Normalized(raw) ==
    LET text == CrLfToLf(raw)
    IN  IF text # <<>> /\ text[Len(text)] = LF
        THEN [k \in 1 .. Len(text) - 1 |-> text[k]]
        ELSE text

\* The raw output behind the stdout and the stderr of the result: the file
\* the output was redirected to, else what came through the pipe.
RawStdout ==
    IF execResult.stdout_path # "" THEN files[execResult.stdout_path]
    ELSE IF popen.stdout # NoStream THEN popen.outBuf ELSE <<>>
RawStderr ==
    IF execResult.stderr_path # "" THEN files[execResult.stderr_path]
    ELSE IF popen.stderr # NoStream THEN popen.errBuf ELSE <<>>

StderrFollowsStdout == conf.stderr # NoName /\ conf.stderr \in {"STDOUT", conf.stdout}

\* C18: when the stderr option is "STDOUT" or the name given for stdout, then
\* with stdout redirected to a file stderr is that same stream and the
\* result's stderr_path equals its stdout_path, and with stdout an in-memory
\* pipe stderr is the merge marker and both paths are None; in every other
\* case stderr is a stream of its own, the same whatever stdout is.
C18_StderrFollowsStdout ==
    /\ conf.stdout_stream = PIPE <=> conf.stdout = NoName
    /\ (StderrFollowsStdout /\ conf.stdout_stream # PIPE) =>
            /\ conf.stdout_stream.kind = "file"
            /\ conf.stderr_stream = conf.stdout_stream
            /\ execResult.stdout_path # ""
            /\ execResult.stderr_path = execResult.stdout_path
            /\ popen.stdout = NoStream /\ popen.stderr = NoStream
    /\ (StderrFollowsStdout /\ conf.stdout_stream = PIPE) =>
            /\ conf.stderr_stream = STDOUT
            /\ execResult.stdout_path = "" /\ execResult.stderr_path = ""
            /\ popen.stdout # NoStream /\ popen.stderr = NoStream
    /\ ~StderrFollowsStdout =>
            /\ conf.stderr_stream # STDOUT
            /\ conf.stderr_stream.kind = "file" =>
                    conf.stderr_stream.id # conf.stdout_stream.id
            /\ conf.stderr_stream = PIPE <=> conf.stderr = NoName
            /\ \A stdout \in StdoutInputs :
                    conf.stderr \notin {"STDOUT", stdout} =>
                        Configuration(stdout, conf.stderr).stderr_stream = conf.stderr_stream

\* stdout went to out.txt and stderr was given as STDOUT: the process has
\* written both outputs to the one file and the result's stderr was read
\* from it.
C18_Witness ==
    /\ conf.stdout = "out.txt" /\ conf.stderr = "STDOUT"
    /\ ~popen.alive
    /\ popen.writesOut # <<>> /\ popen.writesErr # <<>>
    /\ files["out.txt"] = popen.writesOut \o popen.writesErr
    /\ execResult.stderr_path = "out.txt"
    /\ ret.op = "stderr" /\ ret.read
    /\ ret.items = <<execResult._stdout>>

\* The five attributes of the finalized result in the documented order.
AllAttributes ==
    <<Str(<<execResult.rc>>), ObservedStdout, ObservedStderr,
      PathValue(execResult.stdout_path), PathValue(execResult.stderr_path)>>

\* items holds exactly the selected attributes, in that order: each selected
\* attribute stands at the position given by the number of selected attributes
\* up to it.
IsSelection(items, includes) ==
    LET chosen == {i \in 1 .. 5 : includes[i]}
        all == AllAttributes
    IN  /\ Len(items) = Cardinality(chosen)
        /\ \A i \in chosen : items[Cardinality({j \in chosen : j <= i})] = all[i]

HowMany(includes) == Cardinality({i \in 1 .. 5 : includes[i]})

\* What get_process_result computes for a selection on the finalized result.
Computed(includes) ==
    ResultValue(GetResultAttributes(
        AfterStderr(AfterStdout(execResult, closed), closed), includes))

\* C19 as stated: with no selector the whole result is returned, and with any
\* non-empty selection a tuple of exactly the selected attributes in the
\* order rc, stdout, stderr, stdout_path, stderr_path.
C19_SelectionGivesTuple ==
    [][ (execResult.rc # RcNone /\ Accessed("get_process_result")) =>
            /\ ret'.kind = IF HowMany(ret'.args) = 0 THEN "result" ELSE "tuple"
            /\ IsSelection(ret'.items, ret'.args)
      ]_vars

\* C19 amended: with no selector the whole result is returned, with exactly
\* one selector the selected attribute itself, and with two or more a tuple
\* of exactly the selected attributes in the order rc, stdout, stderr,
\* stdout_path, stderr_path. The calls are made with SelectorInputs; every
\* selection is computed on the result that the first call after a _wait
\* finds.
C19_SelectionGivesValueOrTuple ==
    [][ /\ (execResult.rc # RcNone /\ ret.op = "_wait"
                /\ Accessed("get_process_result") /\ HowMany(ret'.args) = 0) =>
            \A includes \in Selectors :
                LET value == Computed(includes)
                IN  /\ value.kind =
                            IF HowMany(includes) = 0 THEN "result"
                            ELSE IF HowMany(includes) = 1 THEN "value" ELSE "tuple"
                    /\ IsSelection(value.items, includes)
        /\ (execResult.rc # RcNone /\ Accessed("get_process_result")) =>
            /\ ret'.kind =
                    IF HowMany(ret'.args) = 0 THEN "result"
                    ELSE IF HowMany(ret'.args) = 1 THEN "value" ELSE "tuple"
            /\ IsSelection(ret'.items, ret'.args)
      ]_vars

\* get_process_result with stdout as the only selector has returned the
\* non-empty stdout text itself.
C19_Witness ==
    /\ ret.op = "get_process_result"
    /\ ret.kind = "value"
    /\ ret.items = <<execResult._stdout>>
    /\ execResult._stdout.s # <<>>

\* C20: where signal delivery is unsupported (Windows), every
\* send_signal_to_process, whatever the signal and whether the handle is
\* known, unknown or absent, fails with the platform error; no signal is
\* sent, no process is touched, and the call never returns normally.
C20_UnsupportedPlatformFails ==
    [][ (platform = "windows" /\ pc = "idle" /\ ctx'.op = "send_signal_to_process") =>
            /\ pc' = "done"
            /\ outcome' = Raised("This keyword does not work on Windows.")
            /\ sent' = sent
            /\ os' = os
            /\ libraryState' = libraryState
      ]_vars

\* On Windows a signal for a registered, running process was refused.
C20_Witness ==
    /\ platform = "windows"
    /\ pc = "done"
    /\ ctx.op = "send_signal_to_process"
    /\ HandleError(ctx.handle) = ""
    /\ ctx.handle.kind # "none"
    /\ Running(HandleProcess(ctx.handle))
    /\ outcome = Raised("This keyword does not work on Windows.")
    /\ sent = <<>>

\* C21: send_signal_to_process sends the signal with os.killpg (the whole
\* process group) when group is true and with Popen.send_signal (the single
\* process) otherwise, to the process the handle resolves to; the keyword ends
\* at once without polling or waiting, finalizes no result (rc stays as it
\* was), and leaves the registry and the active process as they were; the
\* only process it can affect is the one signalled.
C21_SignalOnlyDelivers ==
    [][ (pc = "idle" /\ ctx'.op = "send_signal_to_process") =>
            /\ pc' = "done"
            /\ elapsed' = elapsed
            /\ UNCHANGED <<connections, aliases, current, results>>
            /\ \A q \in DOMAIN os : q # ctx'.p => os'[q] = os[q]
            /\ \A q \in DOMAIN os : os'[q].alive = os[q].alive
            /\ Len(sent') <= Len(sent) + 1
            /\ outcome'.kind = "error" \/ Len(sent') = Len(sent) + 1
            /\ \A signal \in SignalInputs, group \in BOOLEAN :
                    (/\ Len(sent') = Len(sent) + 1
                     /\ SendSignalToProcess(signal, ctx'.handle, group)) =>
                        /\ sent'[Len(sent')].p = HandleProcess(ctx'.handle)
                        /\ sent'[Len(sent')].from =
                                IF group THEN "send_signal_to_process/killpg"
                                ELSE "send_signal_to_process/send_signal"
      ]_vars

\* TERM went to the process group of a running process, which is still
\* running with its result not finalized, and the keyword has returned.
C21_Witness ==
    /\ pc = "done"
    /\ ctx.op = "send_signal_to_process"
    /\ outcome = Returned("none", 0)
    /\ sent = <<[p |-> ctx.p, sig |-> "TERM", from |-> "send_signal_to_process/killpg"]>>
    /\ os[ctx.p].alive
    /\ os[ctx.p].pending = "TERM"
    /\ results[ctx.p].rc = RcNone
    /\ ctx.p # current

\* The keywords that C22 names, and the process an explicit handle denotes in
\* the registry: the index-th registered process, the process registered
\* under the alias, or the process object itself.
ExplicitHandleOps ==
    {"wait_for_process", "terminate_process", "is_process_running", "get_process_result"}
Denoted(h) ==
    CASE h.kind = "index" -> connections[h.n]
      [] h.kind = "alias" -> connections[aliases[h.a]]
      [] h.kind = "proc" -> h.n

\* The step calls one of these keywords with the handle h.
CallsExplicit(h) ==
    \/ ctx'.op = "is_process_running" /\ IsProcessRunning(h)
    \/ ctx'.op = "get_process_result" /\ GetProcessResult(h)
    \/ ctx'.op = "terminate_process" /\ TerminateProcess(h, ctx'.kill)
    \/ /\ ctx'.op = "wait_for_process"
       /\ \E t \in {u \in TimeoutInputs : GetTimeout(u) = ctx'.timeout},
             o \in OnTimeoutInputs : WaitForProcess(h, t, o)

\* C22: wait_for_process, terminate_process, is_process_running and
\* get_process_result called with an explicit handle work on the process that
\* handle denotes, whichever process is active (no call with a handle that
\* resolves works on another process than the one denoted); through the whole
\* call every signal goes to that process, only its result is touched, the
\* result returned is its result, and the active process and the registry
\* stay as they were.
C22_ExplicitHandleActsOnThatProcess ==
    [][ /\ (pc = "idle" /\ ctx'.op \in ExplicitHandleOps) =>
            /\ ctx'.p = 0 => LookupFailed(outcome'.err)
            /\ \A h \in Handles :
                    (h.kind # "none" /\ HandleError(h) = "" /\ Denoted(h) # ctx'.p) =>
                        ~CallsExplicit(h)
        /\ (pc # "idle" /\ ctx'.op \in ExplicitHandleOps) => ctx'.p = ctx.p
        /\ ctx'.op \in ExplicitHandleOps =>
            /\ UNCHANGED <<connections, aliases, current>>
            /\ \A q \in DOMAIN results : q # ctx'.p => results'[q] = results[q]
            /\ \A i \in 1 .. Len(sent') : sent'[i].p = ctx'.p
            /\ (pc' = "done" /\ outcome'.kind = "result") => outcome'.p = ctx'.p
      ]_vars

\* terminate_process has stopped a process that is not the active one, while
\* the active one is running with its result unfinished.
C22_Witness ==
    /\ pc = "done"
    /\ ctx.op = "terminate_process"
    /\ ctx.p # current
    /\ outcome = Returned("result", ctx.p)
    /\ ~os[ctx.p].alive
    /\ sent # <<>>
    /\ current \in DOMAIN os
    /\ os[current].alive
    /\ results[current].rc = RcNone

\* The keyword in progress has failed.
Failed == pc = "done" /\ outcome.kind = "error"

\* The number of processes that were registered when the keyword in progress
\* was called: start_process and run_process register the process they
\* spawn, and no other step of a keyword adds an entry.
RegisteredAtCall ==
    IF ctx.op \in {"start_process", "run_process"} /\ ctx.p # 0 /\ IsRegistered(ctx.p)
    THEN Len(connections) - 1
    ELSE Len(connections)

\* C23 as stated: when an operation has failed, the registry holds what it
\* held before the operation, the active process is the one that was active
\* before, and the operation has touched no process other than the one it
\* was working on when it failed.
C23_FailureLeavesAllAsBefore ==
    Failed =>
        /\ Len(connections) = RegisteredAtCall
        /\ current = ctx.saved
        /\ \A i \in 1 .. Len(sent) : sent[i].p = ctx.p

\* C23 amended: a failed operation never removes or changes a registry entry
\* and leaves the active process as it was before the call; the one change
\* to the registry is that run_process, failing after it has started its
\* process, leaves that process registered.  Apart from
\* terminate_all_processes, which has already terminated the processes that
\* come before the one it failed on (and has not cleared the registry), the
\* operation signals no process and changes no result other than those of
\* the process it works on.
C23_FailureKeepsEntriesAndActive ==
    [][ /\ ctx'.op \notin {"", "start_process", "run_process", "terminate_all_processes"} =>
            /\ UNCHANGED <<connections, aliases>>
            /\ current' = current \/ (ctx'.op = "switch_process" /\ ~Failed')
            /\ \A q \in DOMAIN results : q # ctx'.p => results'[q] = results[q]
            /\ \A i \in 1 .. Len(sent') : sent'[i].p = ctx'.p
        /\ (pc # "idle" /\ ctx'.op = "run_process") =>
            /\ UNCHANGED <<connections, aliases>>
            /\ \A q \in DOMAIN results : q # ctx'.p => results'[q] = results[q]
            /\ \A i \in 1 .. Len(sent') : sent'[i].p = ctx'.p
        /\ (pc = "idle" /\ ctx'.op \in {"start_process", "run_process"}) =>
            /\ \A i \in 1 .. Len(connections) : connections'[i] = connections[i]
            /\ \A a \in DOMAIN aliases : a \in DOMAIN aliases' /\ aliases'[a] = aliases[a]
            /\ \A q \in DOMAIN results : results'[q] = results[q] /\ os'[q] = os[q]
            /\ sent' = <<>>
        /\ (ctx'.op = "terminate_all_processes" /\ (pc' # "done" \/ Failed')) =>
            /\ UNCHANGED <<connections, aliases, current>>
            /\ \A i \in 1 .. Len(sent') : sent'[i].p \in {connections[j] : j \in (1 .. ctx'.idx) \cap DOMAIN connections}
        /\ Failed' =>
            /\ current' = ctx'.saved
            /\ Len(connections') = RegisteredAtCall' \/ ctx'.op = "run_process"
            /\ Len(connections') \in {RegisteredAtCall', RegisteredAtCall' + 1}
      ]_vars

\* terminate_process has failed to kill a process that is not the active one:
\* both processes are still registered and running, the active one untouched.
C23_Witness ==
    /\ Failed
    /\ ctx.op = "terminate_process"
    /\ outcome = Raised("Failed to kill process.")
    /\ Len(connections) = 2
    /\ ctx.p # current /\ current = ctx.saved
    /\ os[current].alive /\ os[current].pending = "none"
    /\ results[current].rc = RcNone
    /\ os[ctx.p].alive

\* ---------------------------------------------------------------- C24

\* The arguments of the call that ret records.
CallArgs(r) == r.args[1]

\* A redirect names a file that cannot be opened.
BadRedirect(args) == args.stdout \in Unopenable \/ args.stderr \in Unopenable

\* An extra keyword argument does not use the env:<name> syntax.
BadExtra(args) == \E key \in DOMAIN args.extra : key.head # "env:"

\* C24: a start_process or run_process call whose redirect file cannot be
\* opened, or whose extra keyword argument does not use the env: syntax,
\* raises without spawning a process and leaves the registry, the active
\* process and the results map as they were.
C24_ConfigurationErrorBeforeSpawn ==
    [][ (/\ ret'.mark # ret.mark
         /\ BadRedirect(CallArgs(ret')) \/ BadExtra(CallArgs(ret'))) =>
            /\ pc' = "done"
            /\ outcome'.kind = "error"
            /\ os' = os
            /\ UNCHANGED <<connections, aliases, current, results>>
      ]_vars

\* A run_process call with an unsupported extra keyword argument has failed
\* while a process started earlier is registered and active.
C24_Witness ==
    /\ pc = "done"
    /\ ret.op = "run_process"
    /\ ret.kind = "error"
    /\ BadExtra(CallArgs(ret))
    /\ ctx.op = "run_process"
    /\ outcome.kind = "error"
    /\ Len(connections) = 1
    /\ current = 1
    /\ DOMAIN results = {1}
    /\ DOMAIN os = {1}

\* ---------------------------------------------------------------- C25

\* A configuration was built by the last call; its stdin argument and the
\* stream that stdin was resolved to.
Configured == Len(conf) = 1
StdinArg == CallArgs(ret).stdin
StdinStream == conf[1].stdin_stream

\* The two markers.
IsNoStdinMarker(s) == Upper(s) = S_NONE
IsPipeMarker(s) == s = S_PIPE

\* The text names a file that exists in the working directory.
NamesFile(s) == NormPath(PathName(s)) \in DOMAIN files \ {TempFile}

\* A pathlib.Path object as the value of the stdin stream.
PathObject(s) == [kind |-> "Path", id |-> 0, name |-> PathName(s)]

\* stdin is the file named by s opened for reading, or else a temporary
\* file that holds exactly s.
FileOrTemporary(s) ==
    IF NamesFile(s)
    THEN StdinStream = FileStream(5, NormPath(PathName(s)))
    ELSE StdinStream = FileStream(5, TempFile) /\ files[TempFile] = s

\* The string cases of the classification, with the number of cases that
\* apply to the last call's stdin given the non-string types passed through.
StringCases ==
    /\ (StdinArg.type = "str" /\ IsNoStdinMarker(StdinArg.s)) => StdinStream = NoStream
    /\ (StdinArg.type = "str" /\ IsPipeMarker(StdinArg.s)) => StdinStream = PIPE
    /\ (StdinArg.type = "str" /\ ~IsNoStdinMarker(StdinArg.s) /\ ~IsPipeMarker(StdinArg.s)) =>
            FileOrTemporary(StdinArg.s)
CasesThatApply(passed) ==
    Cardinality({i \in 1 .. 5 :
        CASE i = 1 -> StdinArg.type = "str" /\ IsNoStdinMarker(StdinArg.s)
          [] i = 2 -> StdinArg.type = "str" /\ IsPipeMarker(StdinArg.s)
          [] i = 3 -> /\ StdinArg.type \in {"str", "Path"} \ passed
                      /\ StdinArg.type = "str" =>
                            ~IsNoStdinMarker(StdinArg.s) /\ ~IsPipeMarker(StdinArg.s)
                      /\ NamesFile(StdinArg.s)
          [] i = 4 -> /\ StdinArg.type \in {"str", "Path"} \ passed
                      /\ StdinArg.type = "str" =>
                            ~IsNoStdinMarker(StdinArg.s) /\ ~IsPipeMarker(StdinArg.s)
                      /\ ~NamesFile(StdinArg.s)
          [] i = 5 -> StdinArg.type \in passed})

C26_MarkersCaseInsensitive ==
    (Configured /\ StdinArg.type = "str") =>
        /\ Upper(StdinArg.s) = S_PIPE => StdinStream = PIPE
        /\ Upper(StdinArg.s) = S_NONE => StdinStream = NoStream

\* ---------------------------------------------------------------- C27

\* The env:<name> overrides of the arguments, as name -> value.
Overrides(args) ==
    [name \in {key.rest : key \in DOMAIN args.extra} |->
        args.extra[CHOOSE key \in DOMAIN args.extra : key.rest = name]]

\* The mapping base with the mapping over layered on top.
Layered(base, over) ==
    [name \in DOMAIN base \cup DOMAIN over |->
        IF name \in DOMAIN over THEN over[name] ELSE base[name]]

\* C27: the child's environment is the explicit env mapping alone whenever
\* a mapping is given and otherwise the inherited environment, in both
\* cases with every env:<name> override layered on top; with neither, the
\* child inherits; the parent's own environment is never changed.
C27_ChildEnvironment ==
    /\ environ = OsEnviron
    /\ Configured =>
            ChildEnvironment(conf[1].env, environ) =
                Layered(IF CallArgs(ret).env.isNone THEN environ ELSE CallArgs(ret).env.d,
                        Overrides(CallArgs(ret)))

\* ---------------------------------------------------------------- C28

\* A split of a joined command line has returned or raised.
SplitDone == ret.op = "split_command_line"
JoinedArgs == ret.args[1]
SplitEscaping == ret.args[3]
RoundTrip == ret.kind = "list" /\ ret.items = JoinedArgs

\* Some argument contains the character c.
SomeArgHas(args, c) == \E i \in DOMAIN args : \E j \in DOMAIN args[i] : args[i][j] = c

\* C28 as stated: for arguments that may contain spaces and quotes (and no
\* backslash), split_command_line(join_command_line(args)), called as
\* written with the default escaping, gives back args.
C28_SplitOfJoinIsIdentity ==
    (SplitDone /\ ~SplitEscaping /\ ~SomeArgHas(JoinedArgs, BS)) => RoundTrip

\* C28 amended: for arguments without a backslash the round trip gives back
\* args when split_command_line is called with escaping, and with the
\* default (no escaping) exactly when no argument contains a quote.
C28_SplitOfJoinWithEscaping ==
    (SplitDone /\ ~SomeArgHas(JoinedArgs, BS)) =>
        /\ SplitEscaping => RoundTrip
        /\ ~SplitEscaping => (RoundTrip <=> ~SomeArgHas(JoinedArgs, DQ))

\* An argument with a space and a quote, and an empty argument, were joined
\* and split with escaping, and came back.
C28_Witness ==
    /\ SplitDone
    /\ SplitEscaping
    /\ JoinedArgs = <<<<"a", SP, DQ>>, <<>>>>
    /\ ret.items = JoinedArgs

\* ---------------------------------------------------------------- C29

\* The streams that belong to the result: the process's stdin, stdout and
\* stderr pipe ends, the redirect files and a stdin file or object.
ProcessStreams ==
    {popen.stdout, popen.stderr}
        \cup (IF conf.stdin_stream = PIPE THEN {PipeEnd(6)} ELSE {})
RedirectStreams == {conf.stdout_stream, conf.stderr_stream, conf.stdin_stream}
OwnedStreams == (ProcessStreams \cup RedirectStreams) \ {PIPE, STDOUT, NoStream}

\* C29: when _wait, with which wait_for_process and terminate_process end,
\* has returned the result, the result's rc is set and every stream the
\* result owns is closed.
C29_ReturnedResultIsFinalized ==
    (ret.op = "_wait" /\ ret.kind = "result") =>
        /\ execResult.rc # RcNone
        /\ \A stream \in OwnedStreams : stream.id \in closed

\* The result was returned for a process with stdin on a pipe, stdout in a
\* file and stderr on a pipe: two pipe ends and the file are closed.
C29_Witness ==
    /\ ret.op = "_wait"
    /\ execResult.rc # RcNone
    /\ conf.stdin_stream = PIPE
    /\ conf.stdout_stream = FileStream(1, "out.txt")
    /\ conf.stderr_stream = PIPE
    /\ closed = {1, 4, 6}

\* ---------------------------------------------------------------- C30

\* C30: whenever a Robot timeout interrupts wait_for_process, run_process
\* or terminate_process at one of its suspension points (the timed polling
\* of wait_for_process, the grace-period loop of _terminate, the final
\* drain), the keyword has sent SIGKILL to the process it operates on.
C30_CancellationKills ==
    [][ (~ctx.cancelled /\ ctx'.cancelled) =>
            \E i \in DOMAIN sent' : sent'[i].p = ctx'.p /\ sent'[i].sig = "KILL"
      ]_vars

\* ---------------------------------------------------------------- C31

\* _wait has just run, and with it close_streams.
WaitStep == ret'.op = "_wait" /\ ret'.mark # ret.mark

\* The streams close_streams called close() on.
CloseCallsMade(r) == {r.items[i] : i \in DOMAIN r.items}

C32_StreamsExclusivelyOwned ==
    \A p \in DOMAIN held : \A q \in DOMAIN held :
        p # q => held[p] \cap held[q] = {}

\* ---------------------------------------------------------------- C33

\* C33: whenever the return code of a result is set, the process has exited,
\* rc is its return code, and the result stores what the process wrote to the
\* pipes of its stdout and stderr; no stream has been closed while rc is
\* still unset, so the outputs are drained before rc is set and rc is set
\* before the streams are closed.
C33_RcSetAfterDrain ==
    /\ execResult.rc # RcNone =>
            /\ ~popen.alive
            /\ execResult.rc = popen.returncode
            /\ popen.stdout # NoStream =>
                    execResult._stdout = FormatOutput(Str(popen.outBuf))
            /\ popen.stderr # NoStream =>
                    execResult._stderr = FormatOutput(Str(popen.errBuf))
    /\ closed # {} => execResult.rc # RcNone

\* A process that wrote to both of its pipes has been waited for: rc is set,
\* both outputs are stored and both pipe ends are closed.
C33_Witness ==
    /\ execResult.rc # RcNone
    /\ popen.stdout # NoStream /\ popen.stderr # NoStream
    /\ popen.outBuf # <<>> /\ popen.errBuf # <<>>
    /\ execResult._stdout = Str(popen.outBuf)
    /\ {popen.stdout.id, popen.stderr.id} \subseteq closed

\* ---------------------------------------------------------------- C34

\* The step reads the attribute op ("stdout" or "stderr") of the result while
\* the attribute has no redirect file and its stream is absent or closed.
ReadsWithoutStream(op, path, stream) ==
    /\ ret'.op = op
    /\ ret'.mark # ret.mark
    /\ path = ""
    /\ ~IsOpen(stream, closed)

\* C34 as stated: reading stdout or stderr of a result that has no redirect
\* file for it and whose stream is absent or closed returns the empty string
\* and does not raise.
C34_ClosedStreamReadsEmpty ==
    [][ /\ ReadsWithoutStream("stdout", execResult.stdout_path, popen.stdout) =>
                (ret'.kind = "value" /\ ret'.items = <<Str(<<>>)>>)
        /\ ReadsWithoutStream("stderr", execResult.stderr_path, popen.stderr) =>
                (ret'.kind = "value" /\ ret'.items = <<Str(<<>>)>>)
      ]_vars

\* The value that reading an attribute without file and open stream gives:
\* what the result has stored for it, the empty string when it has stored
\* nothing.
StoredOrEmpty(stored) == IF stored.isNone THEN Str(<<>>) ELSE stored

\* C34: reading stdout or stderr of a result that has no redirect file for
\* it and whose stream is absent or closed does not raise; it returns the
\* output that the wait stored, and the empty string when nothing was stored,
\* as for the stderr of a process whose stderr was merged into an in-memory
\* stdout.
C34_ClosedStreamReadsStoredOrEmpty ==
    [][ /\ ReadsWithoutStream("stdout", execResult.stdout_path, popen.stdout) =>
                /\ ret'.kind = "value"
                /\ ret'.items = <<StoredOrEmpty(execResult._stdout)>>
        /\ ReadsWithoutStream("stderr", execResult.stderr_path, popen.stderr) =>
                /\ ret'.kind = "value"
                /\ ret'.items = <<StoredOrEmpty(execResult._stderr)>>
                /\ conf.stderr_stream = STDOUT => ret'.items = <<Str(<<>>)>>
      ]_vars

\* The stderr of a process that wrote to its stderr, merged into the stdout
\* pipe, has been read for the first time and is the empty string.
C34_Witness ==
    /\ ret.op = "stderr" /\ ret.read
    /\ conf.stdout_stream = PIPE /\ conf.stderr_stream = STDOUT
    /\ popen.writesErr # <<>>
    /\ popen.stderr = NoStream
    /\ ret.items = <<Str(<<>>)>>
    /\ execResult._stdout # Str(<<>>)

\* ---------------------------------------------------------------- C36

\* C36: the results map and the registry describe the same processes: every
\* registered process has an ExecutionResult, every ExecutionResult belongs
\* to a registered process, and no process is registered twice.
C36_ResultsMatchRegistry ==
    /\ DOMAIN results = {connections[i] : i \in DOMAIN connections}
    /\ \A i \in DOMAIN connections : \A j \in DOMAIN connections :
            connections[i] = connections[j] => i = j

\* ---------------------------------------------------------------- C37

\* The process p has exited but nothing has waited for it: its result has no
\* rc.
ExitedUnwaited(p) ==
    /\ p \in DOMAIN results
    /\ ~Running(p)
    /\ results[p].rc = RcNone

\* The step is taken by the keyword that is running, not by a child.
KeywordStep == <<pc, ctx, sent, results, connections>>' # <<pc, ctx, sent, results, connections>>

\* C37: a process that has exited without being waited for or terminated
\* counts as unfinished: get_process_result on it raises because rc is unset,
\* the loop of terminate_all_processes passes it without sending a signal or
\* touching its result, and the reset at the end of the loop drops the result
\* with rc still unset and its streams not closed.
C37_ExitedUnwaitedIsUnfinished ==
    [][ /\ (/\ ctx'.op = "get_process_result"
            /\ pc = "idle"
            /\ ExitedUnwaited(ctx'.p)) =>
                outcome' = Raised("Getting results of unfinished processes is not supported.")
        /\ (/\ pc = "all_loop"
            /\ KeywordStep
            /\ ~LoopFinished(ctx.idx, Len(connections))
            /\ ExitedUnwaited(connections[ctx.idx])) =>
                /\ pc' = "all_loop"
                /\ ctx'.idx = ctx.idx + 1
                /\ UNCHANGED <<sent, os, results>>
        /\ (/\ pc = "all_loop"
            /\ KeywordStep
            /\ LoopFinished(ctx.idx, Len(connections))) =>
                /\ results' = EmptyMap
                /\ connections' = <<>>
                /\ \A p \in DOMAIN results :
                        ExitedUnwaited(p) =>
                            (~results[p].closed /\ ~results[p].drained)
      ]_vars

\* terminate_all_processes has passed the first of two registered processes,
\* which had exited without being waited for, and has sent no signal.
C37_Witness ==
    /\ pc = "all_loop"
    /\ ctx.idx = 2
    /\ Len(connections) = 2
    /\ ExitedUnwaited(connections[1])
    /\ os[connections[1]].returncode = "0"
    /\ sent = <<>>

\* ---------------------------------------------------------------- C38

\* C38: get_process_result with exactly one selector returns the selected
\* attribute itself, and returns a tuple exactly when two or more selectors
\* are set; the tuple then has one element for each selector. The calls are
\* made with SelectorInputs; all selections are computed on the result that
\* the first call after a _wait finds.
C38_SingleSelectorGivesAttribute ==
    [][ (execResult.rc # RcNone /\ Accessed("get_process_result")) =>
            /\ HowMany(ret'.args) = 1 =>
                    /\ ret'.kind = "value"
                    /\ Len(ret'.items) = 1
                    /\ IsSelection(ret'.items, ret'.args)
            /\ ret'.kind = "tuple" <=> HowMany(ret'.args) >= 2
            /\ ret'.kind = "tuple" => Len(ret'.items) = HowMany(ret'.args)
            /\ (ret.op = "_wait" /\ HowMany(ret'.args) = 0) =>
                \A includes \in Selectors :
                    LET value == Computed(includes)
                    IN  /\ HowMany(includes) = 1 =>
                                (value.kind = "value" /\ Len(value.items) = 1)
                        /\ value.kind = "tuple" <=> HowMany(includes) >= 2
      ]_vars

\* get_process_result with rc as the only selector has returned the return
\* code itself.
C38_Witness ==
    /\ ret.op = "get_process_result"
    /\ ret.args = Selected({1})
    /\ ret.kind = "value"
    /\ ret.items = <<Str(<<execResult.rc>>)>>
    /\ execResult.rc = "0"

\* ---------------------------------------------------------------- C39

\* The value v is the lower-case word, written in any letter case.
Spells(v, word) ==
    /\ Len(v) = Len(word)
    /\ \A i \in DOMAIN v :
            \/ v[i] = word[i]
            \/ (v[i] \in DOMAIN LowerTable /\ LowerTable[v[i]] = word[i])

\* wait_for_process, called directly or by run_process, leaves its polling
\* with the process still running: the timeout has occurred.
TimeoutOccurs ==
    /\ pc = "wait_poll"
    /\ pc' # "wait_poll"
    /\ ~ctx'.cancelled
    /\ Running(ctx.p)

\* C39: when the timeout occurs, on_timeout is looked at without regard to
\* letter case: "kill" sends SIGKILL and "terminate" sends SIGTERM, and every
\* other value, known or not, sends no signal, leaves the process running and
\* makes the keyword return None without an error.
C39_OtherValuesContinue ==
    [][ TimeoutOccurs =>
            /\ Spells(ctx.on_timeout, S_kill) =>
                    (Len(sent') = Len(sent) + 1 /\ sent'[Len(sent')].sig = "KILL")
            /\ Spells(ctx.on_timeout, S_terminate) =>
                    (Len(sent') = Len(sent) + 1 /\ sent'[Len(sent')].sig = "TERM")
            /\ (~Spells(ctx.on_timeout, S_kill) /\ ~Spells(ctx.on_timeout, S_terminate)) =>
                    /\ sent' = sent
                    /\ os' = os
                    /\ Running(ctx.p)'
                    /\ pc' = "done"
                    /\ outcome' = Returned("none", 0)
                    /\ UNCHANGED <<connections, aliases, results>>
      ]_vars

\* wait_for_process with the unknown value "abort" has timed out and returned
\* None; the process is running and no signal was sent.
C39_Witness ==
    /\ pc = "done"
    /\ ctx.op = "wait_for_process"
    /\ ctx.timedOut
    /\ ctx.on_timeout = S_abort
    /\ outcome = Returned("none", 0)
    /\ ctx.p \in DOMAIN os /\ Running(ctx.p)
    /\ sent = <<>>

\* ---------------------------------------------------------------- C40

\* _kill leaves its wait for the process to stop, and the process is still
\* running.
KillFails ==
    /\ pc = "kill_wait"
    /\ pc' # "kill_wait"
    /\ ~ctx'.cancelled \/ ctx.cancelled
    /\ Running(ctx.p)

\* C40: when the process is still running once KILL_TIMEOUT has passed since
\* SIGKILL was sent, at the first poll after that time, the keyword raises
\* 'Failed to kill process.' and never reaches the drain of _wait; the result
\* has no rc, its outputs are not stored and its streams not closed, and the
\* process stays registered and running.
C40_FailedKillLeavesResultUnfinalized ==
    [][ KillFails =>
            /\ elapsed > KILL_TIMEOUT
            /\ elapsed <= KILL_TIMEOUT + TimeStep
            /\ sent[Len(sent)] = [p |-> ctx.p, sig |-> "KILL", from |-> ctx.from]
            /\ pc' = "done"
            /\ outcome' = Raised("Failed to kill process.")
            /\ results' = results
            /\ results[ctx.p] = NewResult
            /\ UNCHANGED <<connections, aliases, os, sent>>
            /\ IsRegistered(ctx.p)
      ]_vars

\* wait_for_process with on_timeout=kill has failed to kill the process:
\* SIGKILL is pending on the running process, whose result is as it was
\* created, and the process is registered.
C40_Witness ==
    /\ pc = "done"
    /\ ctx.op = "wait_for_process"
    /\ ctx.timedOut
    /\ outcome = Raised("Failed to kill process.")
    /\ ctx.p \in DOMAIN os
    /\ os[ctx.p].alive /\ os[ctx.p].pending = "KILL"
    /\ results[ctx.p] = NewResult
    /\ IsRegistered(ctx.p)
    /\ Len(sent) = 1 /\ sent[1].sig = "KILL"

\* ---------------------------------------------------------------- C35

\* wait_for_process has been called and has not returned or raised yet.
Waiting == ctx.op = "wait_for_process" /\ pc \notin {"idle", "done"}

\* C35: a wait_for_process call ends once the process it waits for has
\* exited; a call that polls with on_timeout terminate or kill, in any
\* letter case, ends by returning a result or raising, whether or not the
\* process ever exits; and a call without timeout stays in _wait for as long
\* as the process is running, unless Robot's own timeout cancels it.
C35_WaitTerminates ==
    /\ (Waiting /\ ~Running(ctx.p)) ~> (pc = "done")
    /\ (Waiting /\ pc = "wait_poll"
            /\ (Spells(ctx.on_timeout, S_kill) \/ Spells(ctx.on_timeout, S_terminate)))
        ~> (pc = "done" /\ outcome.kind \in {"result", "error"})
    /\ [][ (Waiting /\ pc = "drain" /\ Running(ctx.p)') =>
                (pc' = "drain" \/ ctx'.cancelled) ]_vars

\* wait_for_process with a timeout and on_timeout=terminate has ended with
\* the result of a process that ignored SIGTERM and was killed.
C35_Witness ==
    /\ pc = "done"
    /\ ctx.op = "wait_for_process"
    /\ ctx.timedOut
    /\ outcome.kind = "result"
    /\ Len(sent) = 2 /\ sent[1].sig = "TERM" /\ sent[2].sig = "KILL"
    /\ os[outcome.p].returncode = "-9"
    /\ results[outcome.p].rc = "-9"


=============================================================================
